---------------------------- MODULE Spec2Model ----------------------------
(*************************************************************************)
(* A model of gterm's escape-sequence graphics protocol                  *)
(* (src/gterm/gterm.py, class GTermWidget) and of the host driver's      *)
(* fixed-mode encoder (src/hostlibs/gterm_driver.py).                    *)
(*                                                                       *)
(* Two threads share the graphics command buffer gcb:                    *)
(*   - the server-reading thread (readserver_thread -> screenAddString   *)
(*     -> addGraphics) decodes escape payloads and appends commands;     *)
(*   - the Qt main thread runs doGrUpdate (queued signal), paintGL       *)
(*     (-> cairoRenderGraphicsToTexture -> cairoRenderGraphics) and the  *)
(*     GUI slots clearScreen, viewGraphics and viewText.                 *)
(* Characters are their integer codes (ord), as in the source, where a   *)
(* payload is the list escapeseq of character codes.                     *)
(*************************************************************************)
EXTENDS Integers, Sequences, FiniteSets, TLC

(*************************************************************************)
(* Bounds of the model (not program constants).                          *)
(*************************************************************************)
\* Number of payloads handed to addGraphics in one run.
MaxCalls == 3
\* The colour round trip samples r = p / ColourGrid for p in 0..ColourGrid.
ColourGrid == 9999

(*************************************************************************)
(* Program constants.                                                    *)
(*************************************************************************)
\* addGraphics: ((self.gcbcmds+1) % 1000) == 0
RedrawPeriod == 1000
\* lfcol: float(ival)/999.0 ; lfwid: /99.0 ; lfpos: /9999.0
ColourScale == 999
WidthScale == 99
PosScale == 9999

(*************************************************************************)
(* Python's string-to-number conversions, as lint / alt_float use them.  *)
(* A decoded number is the record [m, e, d] standing for m * 10^e / d.   *)
(*************************************************************************)
\* F applied to the value of e.  TLC passes operator arguments by name;
\* binding the value here evaluates e once.
With(e, F(_)) == CHOOSE r \in {F(v) : v \in {e}} : TRUE

IsDigit(c) == c \in 48..57

\* The characters int() and float() strip from both ends of a str
\* (codes below 256).
IsNumSpace(c) == c \in {9, 10, 11, 12, 13, 32, 133, 160}

\* The characters str.split() with no argument splits at (str.isspace).
IsSplitSpace(c) == c \in {9, 10, 11, 12, 13, 28, 29, 30, 31, 32, 133, 160}

\* s without the leading and trailing characters int()/float() ignore.
Strip(s0) ==
  With(s0, LAMBDA s :
    LET keep == {i \in 1..Len(s) : ~IsNumSpace(s[i])}
    IN  IF keep = {} THEN <<>>
        ELSE SubSeq(s, CHOOSE i \in keep : \A j \in keep : i <= j,
                       CHOOSE i \in keep : \A j \in keep : i >= j))

\* A run of decimal digits in which single underscores may separate digits
\* (PEP 515), which is what int() and float() accept between sign and end.
DigitGroupOK(s0) ==
  With(s0, LAMBDA s :
    /\ s # <<>>
    /\ \A i \in 1..Len(s) :
         \/ IsDigit(s[i])
         \/ /\ s[i] = 95
            /\ i > 1 /\ i < Len(s)
            /\ IsDigit(s[i-1]) /\ IsDigit(s[i+1]))

\* The value of the digits of s (underscores skipped).
DigitsVal(s0) ==
  With(s0, LAMBDA s :
    LET val[i \in 0..Len(s)] ==
          IF i = 0 THEN 0
          ELSE IF s[i] = 95 THEN val[i-1]
          ELSE val[i-1] * 10 + (s[i] - 48)
    IN  val[Len(s)])

CountDigits(s0) ==
  With(s0, LAMBDA s : Cardinality({i \in 1..Len(s) : IsDigit(s[i])}))

\* int(hs) for a str hs: [ok |-> FALSE] stands for ValueError.
PyInt(s) ==
  With(Strip(s), LAMBDA t :
    LET signed == t # <<>> /\ t[1] \in {43, 45}
    IN  With(IF signed THEN Tail(t) ELSE t, LAMBDA body :
          IF DigitGroupOK(body)
          THEN [ok |-> TRUE,
                val |-> IF signed /\ t[1] = 45 THEN 0 - DigitsVal(body)
                        ELSE DigitsVal(body)]
          ELSE [ok |-> FALSE, val |-> 0]))

\* Index of the first element of s that is in set S, or 0.
FirstIn(s0, S) ==
  With(s0, LAMBDA s :
    LET hits == {i \in 1..Len(s) : s[i] \in S}
    IN  IF hits = {} THEN 0 ELSE CHOOSE i \in hits : \A j \in hits : i <= j)

Zero == [m |-> 0, e |-> 0, d |-> 1]

BadNum == [ok |-> FALSE, val |-> [m |-> 0, e |-> 0, d |-> 1]]

\* The mantissa digits [. digits] of a float literal: [ok, m, frac] with
\* frac the number of digits after the point.
PyMantissa(mant0) ==
  With(mant0, LAMBDA mant :
    With(FirstIn(mant, {46}), LAMBDA dpos :
      LET ipart == IF dpos = 0 THEN mant ELSE SubSeq(mant, 1, dpos - 1)
          fpart == IF dpos = 0 THEN <<>> ELSE SubSeq(mant, dpos + 1, Len(mant))
      IN  IF /\ ipart = <<>> \/ DigitGroupOK(ipart)
             /\ fpart = <<>> \/ DigitGroupOK(fpart)
             /\ ipart # <<>> \/ fpart # <<>>
          THEN [ok |-> TRUE, m |-> DigitsVal(ipart \o fpart),
                frac |-> CountDigits(fpart)]
          ELSE [ok |-> FALSE, m |-> 0, frac |-> 0]))

\* The exponent [sign] digits of a float literal: [ok, e].
PyExponent(expo0) ==
  With(expo0, LAMBDA expo :
    LET esign == expo # <<>> /\ expo[1] \in {43, 45}
    IN  With(IF esign THEN Tail(expo) ELSE expo, LAMBDA edig :
          IF DigitGroupOK(edig)
          THEN [ok |-> TRUE,
                e |-> IF esign /\ expo[1] = 45 THEN 0 - DigitsVal(edig)
                      ELSE DigitsVal(edig)]
          ELSE [ok |-> FALSE, e |-> 0]))

\* float(s) for decimal literals: [sign] digits [. digits] [e [sign] digits].
\* The spellings inf, nan and infinity are not in the alphabet of the
\* payloads enumerated here.
PyFloat(s) ==
  With(Strip(s), LAMBDA t :
    LET signed == t # <<>> /\ t[1] \in {43, 45}
        neg    == signed /\ t[1] = 45
    IN  With(IF signed THEN Tail(t) ELSE t, LAMBDA body :
          With(FirstIn(body, {69, 101}), LAMBDA epos :
            With(PyMantissa(IF epos = 0 THEN body ELSE SubSeq(body, 1, epos - 1)),
                 LAMBDA mr :
              With(IF epos = 0 THEN [ok |-> TRUE, e |-> 0]
                   ELSE PyExponent(SubSeq(body, epos + 1, Len(body))),
                   LAMBDA er :
                IF mr.ok /\ er.ok
                THEN [ok |-> TRUE,
                      val |-> [m |-> IF neg THEN 0 - mr.m ELSE mr.m,
                               e |-> er.e - mr.frac,
                               d |-> 1]]
                ELSE BadNum)))))

\* commandlist[a:b] (Python slice, 0-based, clipped to the list).
Slice(s0, a, b) ==
  With(s0, LAMBDA s :
    LET hi == IF b < Len(s) THEN b ELSE Len(s)
    IN  IF a >= hi THEN <<>> ELSE SubSeq(s, a + 1, hi))

\* commandstring.split(): the maximal runs of non-whitespace characters.
Split(s0) ==
  With(s0, LAMBDA s :
    LET IsTok(i)  == ~IsSplitSpace(s[i])
        starts    == {i \in 1..Len(s) : IsTok(i) /\ (i = 1 \/ ~IsTok(i-1))}
        ends      == {i \in 1..Len(s) : IsTok(i) /\ (i = Len(s) \/ ~IsTok(i+1))}
        Nth(S, k) == CHOOSE i \in S : Cardinality({j \in S : j < i}) = k - 1
    IN  [k \in 1..Cardinality(starts) |-> SubSeq(s, Nth(starts, k), Nth(ends, k))])

\* str.replace('E$NG', 'e-'): every non-overlapping occurrence, left to right.
ReplaceENG(s0) ==
  With(s0, LAMBDA s :
    LET n == Len(s)
        rest[i \in 1..(n + 1)] ==
          IF i > n THEN <<>>
          ELSE IF i + 3 <= n /\ SubSeq(s, i, i + 3) = <<69, 36, 78, 71>>
               THEN <<101, 45>> \o rest[i + 4]
               ELSE <<s[i]>> \o rest[i + 1]
    IN  rest[1])

Negate(r0) ==
  With(r0, LAMBDA r : [ok |-> r.ok, val |-> [r.val EXCEPT !.m = 0 - r.val.m]])

lint(charlist) == PyInt(charlist)

\* lfcol with the scale of lfwid: a decoder that disagrees with the driver
\* about the range of a colour field.
lfcol_width_scale(charlist) ==
  With(lint(charlist), LAMBDA r :
    [ok |-> r.ok, val |-> [m |-> r.val, e |-> 0, d |-> WidthScale]])

lfcol(charlist) ==
  With(lint(charlist), LAMBDA r :
    [ok |-> r.ok, val |-> [m |-> r.val, e |-> 0, d |-> ColourScale]])

\* lfwid with the scale of lfcol.
lfwid_colour_scale(charlist) ==
  With(lint(charlist), LAMBDA r :
    [ok |-> r.ok, val |-> [m |-> r.val, e |-> 0, d |-> ColourScale]])

lfwid(charlist) ==
  With(lint(charlist), LAMBDA r :
    [ok |-> r.ok, val |-> [m |-> r.val, e |-> 0, d |-> WidthScale]])

lfpos(charlist) ==
  With(lint(charlist), LAMBDA r :
    [ok |-> r.ok, val |-> [m |-> r.val, e |-> 0, d |-> PosScale]])

\* alt_float: floatstring is a token of split(), hence not empty.
alt_float(floatstring0) ==
  With(floatstring0, LAMBDA floatstring :
    IF floatstring[1] = 36
    THEN Negate(PyFloat(ReplaceENG(Slice(floatstring, 3, Len(floatstring)))))
    ELSE PyFloat(ReplaceENG(floatstring)))

(*************************************************************************)
(* addGraphics: decoding of one payload (the body of its try block up to *)
(* the count bump).  A command is the tuple the source appends to gcb.   *)
(*************************************************************************)
\* alt_float(commandsplit[k]) and float(commandsplit[k]); a missing token
\* is an IndexError.
AltTok(toks, k) == IF k < Len(toks) THEN alt_float(toks[k + 1]) ELSE BadNum
FloatTok(toks, k) == IF k < Len(toks) THEN PyFloat(toks[k + 1]) ELSE BadNum

DecodeError == [ok |-> FALSE, clear |-> FALSE, isaflush |-> FALSE, cmds |-> <<>>]
\* A payload that no branch handles, taken as a failure.
NoCommandRaises == [ok |-> FALSE, clear |-> FALSE, isaflush |-> FALSE, cmds |-> <<>>]

\* No branch of the if/elif chain runs, or a branch guarded by alt_escmode
\* does nothing: the try block goes on to the count bump.
NoCommand == [ok |-> TRUE, clear |-> FALSE, isaflush |-> FALSE, cmds |-> <<>>]

\* self.gcb.append((op, args...)) once every argument has converted.
AppendCommand(op, args0) ==
  With(args0, LAMBDA args :
    IF \A i \in 1..Len(args) : args[i].ok
    THEN [ok |-> TRUE, clear |-> FALSE, isaflush |-> FALSE,
          cmds |-> << <<op>> \o [i \in 1..Len(args) |-> args[i].val] >>]
    ELSE DecodeError)

\* for i in range(4, len(commandlist)-1): recovered_string += chr(...)
RecoveredString(commandlist) == Slice(commandlist, 4, Len(commandlist) - 1)

DecodeCommand(commandlist, commandsplit) ==
    LET command     == commandlist[3]
        alt_escmode == commandlist[1] = 64
        F(a, b)     == Slice(commandlist, a, b)
    IN  CASE command = 48 ->
               [ok |-> TRUE, clear |-> TRUE, isaflush |-> TRUE, cmds |-> <<>>]
          [] command = 49 ->
               IF alt_escmode
               THEN AppendCommand(1, <<FloatTok(commandsplit, 1),
                                       FloatTok(commandsplit, 2),
                                       FloatTok(commandsplit, 3)>>)
               ELSE AppendCommand(1, <<lfcol(F(3, 6)), lfcol(F(6, 9)), lfcol(F(9, 12))>>)
          [] command = 50 ->
               [ok |-> TRUE, clear |-> FALSE, isaflush |-> FALSE, cmds |-> << <<2, 0>> >>]
          [] command \in {51, 52} ->
               IF alt_escmode
               THEN AppendCommand(command - 48, <<AltTok(commandsplit, 1),
                                                  AltTok(commandsplit, 2)>>)
               ELSE AppendCommand(command - 48, <<lfpos(F(3, 7)), lfpos(F(7, 11))>>)
          [] command = 53 ->
               [ok |-> TRUE, clear |-> FALSE, isaflush |-> TRUE, cmds |-> <<>>]
          [] command = 54 ->
               IF alt_escmode
               THEN AppendCommand(6, <<FloatTok(commandsplit, 1)>>)
               ELSE AppendCommand(6, <<lfwid(F(3, 6))>>)
          [] command \in {55, 56} ->
               IF alt_escmode
               THEN AppendCommand(command - 48, <<AltTok(commandsplit, 1),
                                                  AltTok(commandsplit, 2),
                                                  AltTok(commandsplit, 3),
                                                  AltTok(commandsplit, 4)>>)
               ELSE NoCommand
          [] command \in {57, 69} ->
               IF alt_escmode
               THEN [ok |-> TRUE, clear |-> FALSE, isaflush |-> FALSE,
                     cmds |-> << <<IF command = 57 THEN 9 ELSE 14,
                                   RecoveredString(commandlist)>> >>]
               ELSE NoCommand
          \* A, B, C, G: one alt_float argument; D, H, I: two; F: three.
          \* Outside alt_escmode commandsplit is unbound (UnboundLocalError).
          [] command \in {65, 66, 67, 71} ->
               IF alt_escmode
               THEN AppendCommand(CASE command = 65 -> 10 [] command = 66 -> 11
                                    [] command = 67 -> 12 [] OTHER -> 16,
                                  <<AltTok(commandsplit, 1)>>)
               ELSE DecodeError
          [] command \in {68, 72, 73} ->
               IF alt_escmode
               THEN AppendCommand(CASE command = 68 -> 13 [] command = 72 -> 17
                                    [] OTHER -> 18,
                                  <<AltTok(commandsplit, 1), AltTok(commandsplit, 2)>>)
               ELSE DecodeError
          [] command = 70 ->
               IF alt_escmode
               THEN AppendCommand(15, <<AltTok(commandsplit, 1),
                                        AltTok(commandsplit, 2),
                                        AltTok(commandsplit, 3)>>)
               ELSE DecodeError
          [] OTHER -> NoCommand

\* Decode with every payload read as token-separated.
Decode_tokens_always(commandlist0) ==
  With(commandlist0, LAMBDA commandlist :
    IF Len(commandlist) < 3 THEN DecodeError
    ELSE With(Split(commandlist), LAMBDA commandsplit :
              DecodeCommand([commandlist EXCEPT ![1] = 64], commandsplit)))

\* 2714-2727: the opcode is commandlist[2]; the tokens are split off only
\* when the payload starts with '@'.
Decode(commandlist0) ==
  With(commandlist0, LAMBDA commandlist :
    IF Len(commandlist) < 3 THEN DecodeError
    ELSE With(IF commandlist[1] = 64 THEN Split(commandlist) ELSE <<>>,
              LAMBDA commandsplit : DecodeCommand(commandlist, commandsplit)))

(*************************************************************************)
(* cairoRenderGraphics: what replaying one command does to the widget.   *)
(* The Cairo context is an external renderer; of the replay only the     *)
(* widget's own state and the failure of a command are modelled here.    *)
(*************************************************************************)
\* The zoom fields of the widget, which the replay reads.
VARIABLES
  zoomed, zoom_box,
  zoom_rect,      \* self.zoom_xlo, zoom_ylo, zoom_xhi, zoom_yhi
  raw_rect,       \* self.xlo_raw, ylo_raw, xhi_raw, yhi_raw
  view_rect       \* self.xlo, ylo, xhi, yhi

\* self.width_pixels, self.height_pixels (initial drawing area size).
DevW == 800
DevH == 700

RECURSIVE Pow10(_)
Pow10(k) == IF k <= 0 THEN 1 ELSE 10 * Pow10(k - 1)

Abs(i) == IF i < 0 THEN 0 - i ELSE i

\* abs(num/den * (a - b)) < 1e-9 for decoded numbers a, b and a positive
\* rational factor num/den.
SpanBelowEps(a, b, num, den) ==
  LET emin == IF a.e < b.e THEN a.e ELSE b.e
      diff == Abs(a.m * Pow10(a.e - emin) * b.d - b.m * Pow10(b.e - emin) * a.d)
      k    == emin + 9
      rhs  == a.d * b.d * den * Pow10(0 - k)
  IN  \* diff * num * 10^k < rhs, without leaving 32-bit integers
      diff = 0 \/ (k <= 9 /\ diff * num <= (rhs - 1) \div Pow10(k))

\* tick_values(data_min, data_max, max_ticks) returns [] (line 2981).
TickValuesEmpty(data_min, data_max) == SpanBelowEps(data_min, data_max, 1, 1)

\* Graph bounds (cmd 8) with no zoom: graph_tick_values_x[0] or
\* graph_tick_values_y[0] raises IndexError when tick_values returned [].
\* In square mode the x range is xmid -/+ 0.5 * (W/H) * (ybhi - yblo).
GraphBoundsRaises(cmd, square) ==
  \/ TickValuesEmpty(cmd[3], cmd[5])
  \/ IF square
     THEN SpanBelowEps(cmd[3], cmd[5], DevW, DevH)
     ELSE TickValuesEmpty(cmd[2], cmd[4])

\* a + b and a - b for decoded numbers (value m * 10^e / d).
NumAdd(a0, b0) ==
  With(a0, LAMBDA a : With(b0, LAMBDA b :
    LET emin == IF a.e < b.e THEN a.e ELSE b.e
    IN  [m |-> a.m * Pow10(a.e - emin) * b.d + b.m * Pow10(b.e - emin) * a.d,
         e |-> emin, d |-> a.d * b.d]))

NumSub(a, b) == NumAdd(a, [b EXCEPT !.m = 0 - b.m])

\* a = b as numbers, whatever their representation.
NumEq(a, b) == NumSub(a, b).m = 0

\* The point p + q of two positions (numpy: gcp += numpy.asarray(gpos)).
PosAdd(p, q) == <<NumAdd(p[1], q[1]), NumAdd(p[2], q[2])>>

PosEq(p, q) == NumEq(p[1], q[1]) /\ NumEq(p[2], q[2])

\* The scale with a floor of 1e-3 under the span.
ScaleFloorMilli(pixels, lo, hi) ==
  With(NumSub(hi, lo), LAMBDA span :
    IF \/ span.m <= 0
       \/ IF span.e + 3 >= 0 THEN span.m * Pow10(span.e + 3) < span.d
          ELSE span.m < span.d * Pow10(0 - (span.e + 3))
    THEN [n |-> pixels * 1000, d |-> 1]
    ELSE IF span.e >= 0
         THEN [n |-> pixels * span.d, d |-> span.m * Pow10(span.e)]
         ELSE [n |-> pixels * span.d * Pow10(0 - span.e), d |-> span.m])

\* The double hi - lo is +inf: the exact difference m * 10^e / d is at or
\* above 1.79769314e308.  Decided for e >= 300 from m * 10^min(e - 300, 8).
SpanOverflows(span) ==
  /\ span.m > 0 /\ span.e >= 300
  /\ span.m * Pow10((IF span.e > 308 THEN 308 ELSE span.e) - 300) >= 179769314 * span.d

\* pixels / max(1e-6, hi - lo), as the fraction n/d; pixels / inf is 0.0.
Scale(pixels, lo, hi) ==
  With(NumSub(hi, lo), LAMBDA span :
    IF SpanOverflows(span) THEN [n |-> 0, d |-> 1]
    ELSE
    IF \/ span.m <= 0
       \/ IF span.e + 6 >= 0 THEN span.m * Pow10(span.e + 6) < span.d
          ELSE span.m < span.d * Pow10(0 - (span.e + 6))
    THEN [n |-> pixels * 1000000, d |-> 1]
    ELSE IF span.e >= 0
         THEN [n |-> pixels * span.d, d |-> span.m * Pow10(span.e)]
         ELSE [n |-> pixels * span.d * Pow10(0 - span.e), d |-> span.m])

RECURSIVE GCD(_, _)
GCD(a, b) == IF b = 0 THEN a ELSE GCD(b, a % b)

\* The number a = m * 10^e / d in its one normal form: d positive and
\* without the factors 2 and 5, m and d coprime, m not a multiple of 10.
RECURSIVE Canon(_)
Canon(a) ==
  IF a.m = 0 THEN Zero
  ELSE IF GCD(Abs(a.m), a.d) > 1
  THEN Canon([a EXCEPT !.m = a.m \div GCD(Abs(a.m), a.d),
                       !.d = a.d \div GCD(Abs(a.m), a.d)])
  ELSE IF a.d % 2 = 0
  THEN Canon([m |-> a.m * 5, e |-> a.e - 1, d |-> a.d \div 2])
  ELSE IF a.d % 5 = 0
  THEN Canon([m |-> a.m * 2, e |-> a.e - 1, d |-> a.d \div 5])
  ELSE IF a.m % 10 = 0
  THEN Canon([a EXCEPT !.m = a.m \div 10, !.e = a.e + 1])
  ELSE a

\* a * b for numbers.
NumMul(a0, b0) ==
  With(Canon(a0), LAMBDA a : With(Canon(b0), LAMBDA b :
    Canon([m |-> a.m * b.m, e |-> a.e + b.e, d |-> a.d * b.d])))

\* The quotient n / d of two ints and the scale s, as numbers.
Frac(n, d) == Canon([m |-> n, e |-> 0, d |-> d])
ScaleNum(s) == Canon([m |-> s.n, e |-> 0, d |-> s.d])

One == [m |-> 1, e |-> 0, d |-> 1]
ZeroRect == [xlo |-> Zero, ylo |-> Zero, xhi |-> Zero, yhi |-> Zero]
\* 1308-1311: self.xlo = self.ylo = 0.0; self.xhi = self.yhi = 1.0
UnitRect == [xlo |-> Zero, ylo |-> Zero, xhi |-> One, yhi |-> One]

\* a < b, and the smaller and the larger of two numbers (min, max).
NumLess(a, b) == NumSub(a, b).m < 0
NumMin(a, b) == IF NumLess(b, a) THEN b ELSE a
NumMax(a, b) == IF NumLess(a, b) THEN b ELSE a

\* 3117-3126: the bounds of cmd adjusted for an active zoom.
ZoomedBounds(cmd) ==
  IF zoomed
  THEN [xlo |-> NumAdd(cmd[2], NumMul(raw_rect.xlo, NumSub(cmd[4], cmd[2]))),
        xhi |-> NumAdd(cmd[2], NumMul(raw_rect.xhi, NumSub(cmd[4], cmd[2]))),
        ylo |-> NumAdd(cmd[3], NumMul(raw_rect.ylo, NumSub(cmd[5], cmd[3]))),
        yhi |-> NumAdd(cmd[3], NumMul(raw_rect.yhi, NumSub(cmd[5], cmd[3])))]
  ELSE [xlo |-> cmd[2], xhi |-> cmd[4], ylo |-> cmd[3], yhi |-> cmd[5]]

\* (gpos[0] - x_offset) * x_scale, (gpos[1] - y_offset) * y_scale
DevPos(st, gpos) ==
  [x |-> NumMul(NumSub(gpos[1], st.x_offset), ScaleNum(st.x_scale)),
   y |-> NumMul(NumSub(gpos[2], st.y_offset), ScaleNum(st.y_scale))]

\* A positioned Cairo call: the device point is (x, to_y_pixels - y) when
\* flip and (x, y) otherwise; r is the radius of an arc and the half size
\* of a point marker.
Prim(op, at, flip, r) == [op |-> op, x |-> at.x, y |-> at.y, flip |-> flip, r |-> r]

\* The locals of cairoRenderGraphics before the loop (3027-3050).
ReplayStart(square, W, H) ==
  [inaline |-> FALSE, pending_move |-> FALSE,
   pm |-> <<Zero, Zero>>, gcp |-> <<Zero, Zero>>,
   x_scale |-> IF square THEN Scale(H, view_rect.ylo, view_rect.yhi)
               ELSE Scale(W, view_rect.xlo, view_rect.xhi),
   y_scale |-> Scale(H, view_rect.ylo, view_rect.yhi),
   path |-> <<>>, strokes |-> <<>>,
   x_offset |-> view_rect.xlo, y_offset |-> view_rect.ylo,
   dpm |-> [x |-> Zero, y |-> Zero], prims |-> <<>>]

\* The end of an open line at a move or relative move only.
CloseLineAtMoves(op, st) ==
  IF op \in {3, 17} /\ st.inaline
  THEN [st EXCEPT !.inaline = FALSE, !.strokes = Append(st.strokes, st.path),
                  !.path = <<>>]
  ELSE st

\* 3074-3078: a command that is neither draw nor reldraw ends an open line.
CloseLine(op, st) ==
  IF op \notin {4, 18} /\ st.inaline
  THEN [st EXCEPT !.inaline = FALSE, !.strokes = Append(st.strokes, st.path),
                  !.path = <<>>]
  ELSE st

\* 3088-3109, 3288-3309: draw and reldraw to the point to.
LineTo(st0, to) ==
  With(IF st0.pending_move
       THEN [st0 EXCEPT !.pending_move = FALSE, !.inaline = TRUE, !.path = <<st0.pm>>,
                        !.prims = Append(st0.prims, Prim("move_to", st0.dpm, TRUE, Zero))]
       ELSE st0,
       LAMBDA st :
         IF st.inaline
         THEN [st EXCEPT !.path = Append(st.path, to), !.gcp = to,
                         !.prims = Append(st.prims,
                                          Prim("line_to", DevPos(st, to), TRUE, Zero))]
         ELSE st)

\* 3080-3309: the effect of one command on the locals of the replay and the
\* positioned calls it makes.  Text, font and fill commands leave the locals
\* alone; where text lands depends on the font metrics of the renderer and
\* is not recorded.
ReplayCommand(cmd0, st0, square, W, H) ==
  With(cmd0, LAMBDA cmd : With(CloseLine(cmd[1], st0), LAMBDA st :
    CASE cmd[1] = 3 ->
           [st EXCEPT !.pending_move = TRUE, !.pm = <<cmd[2], cmd[3]>>,
                      !.gcp = <<cmd[2], cmd[3]>>,
                      !.dpm = DevPos(st, <<cmd[2], cmd[3]>>)]
      [] cmd[1] = 4 -> LineTo(st, <<cmd[2], cmd[3]>>)
      [] cmd[1] = 7 ->
           With(ZoomedBounds(cmd), LAMBDA b :
             IF square
             THEN [st EXCEPT !.y_offset = b.ylo,
                             !.y_scale = Scale(H, b.ylo, b.yhi),
                             !.x_offset = b.xlo,
                             !.x_scale = Scale(H, b.ylo, b.yhi)]
             ELSE [st EXCEPT !.x_offset = b.xlo,
                             !.x_scale = Scale(W, b.xlo, b.xhi),
                             !.y_offset = cmd[3],
                             !.y_scale = Scale(H, b.ylo, b.yhi)])
      \* delta = int(0.005 * to_x_pixels) + 1
      [] cmd[1] = 13 ->
           [st EXCEPT !.pm = <<cmd[2], cmd[3]>>, !.gcp = <<cmd[2], cmd[3]>>,
                      !.dpm = DevPos(st, <<cmd[2], cmd[3]>>),
                      !.prims = Append(st.prims,
                                  Prim("point", DevPos(st, <<cmd[2], cmd[3]>>), TRUE,
                                       Frac((5 * W) \div 1000 + 1, 1)))]
      \* c.arc(pmx, pmy, prd, 0, 2*math.pi)
      [] cmd[1] = 15 ->
           [st EXCEPT !.pm = <<cmd[2], cmd[3]>>, !.gcp = <<cmd[2], cmd[3]>>,
                      !.dpm = DevPos(st, <<cmd[2], cmd[3]>>),
                      !.prims = Append(st.prims,
                                  Prim("arc", DevPos(st, <<cmd[2], cmd[3]>>), FALSE,
                                       NumMul(cmd[4], ScaleNum(st.x_scale))))]
      [] cmd[1] = 17 ->
           [st EXCEPT !.pending_move = TRUE,
                      !.gcp = PosAdd(st.gcp, <<cmd[2], cmd[3]>>),
                      !.pm = PosAdd(st.gcp, <<cmd[2], cmd[3]>>),
                      !.dpm = DevPos(st, PosAdd(st.gcp, <<cmd[2], cmd[3]>>))]
      [] cmd[1] = 18 ->
           IF st.pending_move \/ st.inaline
           THEN LineTo(st, PosAdd(st.gcp, <<cmd[2], cmd[3]>>))
           ELSE st
      [] OTHER -> st))

\* The replay of command cmd raises an exception.
ReplayRaises(cmd, square) == cmd[1] = 8 /\ GraphBoundsRaises(cmd, square)

\* self.make_square after the replay of cmd (cmd 16: cmd[1] > 0.0).
SquareAfter(cmd, square) == IF cmd[1] = 16 THEN cmd[2].m > 0 ELSE square

(*************************************************************************)
(* Payloads the host sends (complete escape sequences, as the escape     *)
(* handlers ansi_escape and cyber_apl_graphics_escape return them).      *)
(*************************************************************************)
ClearFixed  == <<27, 91, 48, 122>>                                 \* ESC[0z
FlushFixed  == <<27, 91, 53, 122>>                                 \* ESC[5z
MoveFixed   == <<27, 91, 51, 48, 48, 48, 48, 57, 57, 57, 57, 122>> \* ESC[300009999z
ColourPlus  == <<27, 91, 49, 43, 49, 50, 48, 48, 48, 48, 48, 48, 122>> \* ESC[1+12000000z
WidthBad    == <<27, 91, 54, 48, 120, 57, 122>>                    \* ESC[60x9z
BoundsFixed == <<27, 91, 55, 122>>                                 \* ESC[7z
GBoundsFlat == <<64, 91, 56, 32, 48, 32, 48, 32, 48, 32, 48, 32, 64>> \* @[8 0 0 0 0 @
MoveShort   == <<64, 91, 51, 64>>                                  \* @[3@
SquareOn    == <<64, 91, 71, 32, 49, 32, 64>>                      \* @[G 1 @

Payloads == {ClearFixed, FlushFixed, MoveFixed, ColourPlus, WidthBad,
             BoundsFixed, GBoundsFlat, MoveShort, SquareOn}

VARIABLES
  \* --- GTermWidget fields
  gcb,            \* self.gcb: the graphics command buffer
  gcbcmds,        \* self.gcbcmds
  gchanged,       \* self.gchanged
  gcblock,        \* self.gcblock (threading.Lock): TRUE when locked
  global_g_lock,  \* the module global counted by gcblockacquire/release
  drawgraf,       \* self.drawgraf: the graphics view is showing
  make_square,    \* self.make_square
  suppress_next_newline_display,
  \* --- Qt event loop of the main thread
  sigq,           \* queued doGrUpdate signal deliveries
  paintPending,   \* update() has posted a paint event
  \* --- server-reading thread, inside addGraphics
  pc_d, commandlist, isaflush,
  \* --- main thread
  pc_m,
  gr_tmp,         \* the value loaded by self.gchanged -= 1
  rpos,           \* cairoRenderGraphics: index of the command being replayed
  \* --- history (not program state)
  ncalls,         \* addGraphics calls started
  entry_gcb, entry_cmds,  \* gcb and gcbcmds when the current call took the lock
  log,            \* outcome of every finished decode: "ok" or "err"
  bphase,         \* "raising": signals are being raised and doGrUpdate has
                  \* run no step since the first of them stored gchanged;
                  \* "handling": doGrUpdate is handling exactly those signals
  burst,          \* signals raised in the current "raising" phase
  nupd,           \* update() calls of doGrUpdate while handling them
  owed,           \* a Flush was decoded and no replay has completed since
  \* --- colour round trip (driver -> terminal)
  cphase, cr, cpayload, cdec,
  \* --- escape matcher of screenAddString (reading thread)
  escapeProcessFuncList,   \* registered (introducer, handler) pairs
  do_not_process_escapes,
  inescape, escapeProcessFunc, escapeseq, numescape, grafescape,
  pc_s,           \* "next": before a character; "dispatch": at line 2137
  char,           \* the character of the current loop iteration
  screen,         \* what the text screen was asked to do, in order
  nread,          \* characters taken so far (history)
  \* --- cairoRenderGraphics: device size and locals of the replay
  to_x_pixels, to_y_pixels,
  inaline, pending_move,
  pm,             \* the pending move position (user coordinates of pmx, pmy)
  gcp,            \* current position for relative drawing
  x_scale, y_scale,
  path,           \* points of the Cairo path under construction
  strokes,        \* the polylines stroked so far in this replay
  x_offset, y_offset,
  dpm,            \* pmx, pmy: the pending move position in device units
  prims,          \* the positioned Cairo calls of this replay, in order
  \* --- tick generator (tick_step, tick_values)
  tphase, data_min, data_max, max_ticks, tstep, tvalues,
  \* --- tick labels (tick_labels)
  lphase, tick_vals, labels, scale_label

widget == <<gcb, gcbcmds, gchanged, gcblock, global_g_lock, drawgraf,
            make_square, suppress_next_newline_display>>
qt     == <<sigq, paintPending>>
dthr   == <<pc_d, commandlist, isaflush>>
mthr   == <<pc_m, gr_tmp, rpos>>
hist   == <<ncalls, entry_gcb, entry_cmds, log, bphase, burst, nupd, owed>>
colr   == <<cphase, cr, cpayload, cdec>>
esc    == <<escapeProcessFuncList, do_not_process_escapes, inescape,
            escapeProcessFunc, escapeseq, numescape, grafescape, pc_s, char,
            screen, nread>>
pen    == <<to_x_pixels, to_y_pixels, inaline, pending_move, pm, gcp, x_scale,
            y_scale, path, strokes, x_offset, y_offset, dpm, prims>>
zoom   == <<zoomed, zoom_box, zoom_rect, raw_rect, view_rect>>
tick   == <<tphase, data_min, data_max, max_ticks, tstep, tvalues, lphase,
            tick_vals, labels, scale_label>>
vars   == <<widget, qt, dthr, mthr, hist, colr, esc, pen, tick, zoom>>

\* GTermWidget.__init__ (lines 1303-1316), both threads at rest, with the
\* command count at count, the graphics view showing iff graf (viewGraphics
\* has then called update()), and the colour round trip in phase.
InitGraphics(buffer, count, graf, phase) ==
  /\ gcb = buffer /\ gcbcmds = count /\ gchanged = 0
  /\ gcblock = FALSE /\ global_g_lock = 0
  /\ drawgraf = graf /\ make_square = FALSE
  /\ suppress_next_newline_display = FALSE
  /\ sigq = 0 /\ paintPending = graf
  /\ pc_d = "idle" /\ commandlist = <<>> /\ isaflush = FALSE
  /\ pc_m = "idle" /\ gr_tmp = 0 /\ rpos = 0
  /\ ncalls = 0 /\ entry_gcb = <<>> /\ entry_cmds = 0 /\ log = <<>>
  /\ bphase = "none" /\ burst = 0 /\ nupd = 0 /\ owed = FALSE
  /\ cphase = phase /\ cr = <<>> /\ cpayload = <<>> /\ cdec = NoCommand
  /\ to_x_pixels = DevW /\ to_y_pixels = DevH
  /\ inaline = FALSE /\ pending_move = FALSE
  /\ pm = <<Zero, Zero>> /\ gcp = <<Zero, Zero>>
  /\ x_scale = [n |-> 0, d |-> 1] /\ y_scale = [n |-> 0, d |-> 1]
  /\ path = <<>> /\ strokes = <<>>
  /\ x_offset = Zero /\ y_offset = Zero
  /\ dpm = [x |-> Zero, y |-> Zero] /\ prims = <<>>
  /\ zoomed = FALSE /\ zoom_box = FALSE
  /\ zoom_rect = ZeroRect /\ raw_rect = ZeroRect /\ view_rect = UnitRect

\* No call of tick_values is in progress.
LabelIdle ==
  lphase = "off" /\ tick_vals = <<>> /\ labels = <<>> /\ scale_label = <<>>

TickIdle ==
  /\ tphase = "off" /\ data_min = 0 /\ data_max = 0 /\ max_ticks = 0
  /\ tstep = [m |-> 0, e |-> 0] /\ tvalues = <<>>
  /\ LabelIdle

InitWidget(buffer, count, graf, phase) ==
  InitGraphics(buffer, count, graf, phase) /\ TickIdle

InitCore(count, graf, phase) == InitWidget(<<>>, count, graf, phase)

\* GTermWidget.__init__ (lines 1281-1287): the escape matcher, with the
\* handlers in list registered and escape processing off iff noesc.
InitEscape(list, noesc) ==
  /\ escapeProcessFuncList = list /\ do_not_process_escapes = noesc
  /\ inescape = FALSE /\ escapeProcessFunc = "None" /\ escapeseq = <<>>
  /\ numescape = 0 /\ grafescape = FALSE
  /\ pc_s = "next" /\ char = 0 /\ screen = <<>> /\ nread = 0

InitAt(count, graf, phase) == InitCore(count, graf, phase) /\ InitEscape(<<>>, FALSE)

Init == InitAt(0, FALSE, "off")

\* An acquire that does not wait for the lock to be free.
gcblockacquire_nowait ==
  /\ gcblock' = TRUE
  /\ global_g_lock' = global_g_lock + 1

\* gcblockacquire / gcblockrelease (threading.Lock: acquire blocks while
\* the lock is held).
gcblockacquire ==
  /\ ~gcblock
  /\ gcblock' = TRUE
  /\ global_g_lock' = global_g_lock + 1

gcblockrelease ==
  /\ gcblock' = FALSE
  /\ global_g_lock' = global_g_lock - 1

\* The main thread's positions inside doGrUpdate and clearScreen.
InDoGrUpdate == {"gr_check", "gr_acquire", "gr_read", "gr_write", "gr_release",
                 "cs_clear", "cs_release"}

\* self.update(): Qt posts one paint event however often it is called
\* before the event is delivered.
update == paintPending' = TRUE

(*************************************************************************)
(* The server-reading thread: addGraphics(commandlist), lines 2696-2916. *)
(*************************************************************************)
\* 2709-2710: self.gcblockacquire(); isaflush = False
AddGraphicsEnter(p) ==
  /\ gcblockacquire
  /\ commandlist' = p /\ isaflush' = FALSE /\ pc_d' = "ag_decode"
  /\ ncalls' = ncalls + 1 /\ entry_gcb' = gcb /\ entry_cmds' = gcbcmds
  /\ UNCHANGED <<gcb, gcbcmds, gchanged, drawgraf, make_square, qt, mthr, log,
                 bphase, burst, nupd, owed, colr, pen, tick, zoom>>

\* addGraphics called with the payload p of a finished escape sequence.
AddGraphicsAcquire(p) ==
  /\ pc_d = "idle" /\ ncalls < MaxCalls
  /\ AddGraphicsEnter(p)
  /\ UNCHANGED <<suppress_next_newline_display, esc>>

\* 2714-2896: the try block up to the count bump.  setSuppressNextNewline-
\* Display(True) runs as soon as the payload is seen to start with '@'.
AddGraphicsDecode ==
  /\ pc_d = "ag_decode"
  /\ LET r == Decode(commandlist)
     IN  /\ suppress_next_newline_display' =
              (suppress_next_newline_display
                 \/ (Len(commandlist) >= 3 /\ commandlist[1] = 64))
         /\ IF r.ok
            THEN /\ gcb' = IF r.clear THEN <<>> ELSE gcb \o r.cmds
                 /\ gcbcmds' = IF r.clear THEN 0 ELSE gcbcmds
                 /\ isaflush' = r.isaflush
                 /\ pc_d' = "ag_bump"
                 /\ owed' = IF r.clear THEN FALSE
                            ELSE IF r.isaflush THEN TRUE ELSE owed
                 /\ log' = Append(log, "ok")
            ELSE /\ pc_d' = "ag_except"
                 /\ log' = Append(log, "err")
                 /\ UNCHANGED <<gcb, gcbcmds, isaflush, owed>>
  /\ UNCHANGED <<gchanged, gcblock, global_g_lock, drawgraf, make_square, qt,
                 commandlist, mthr, ncalls, entry_gcb, entry_cmds, bphase, burst,
                 nupd, colr, esc, pen, tick, zoom>>

\* addGraphics without the count bump.
AddGraphicsBumpNever ==
  /\ pc_d = "ag_bump"
  /\ pc_d' = "ag_release"
  /\ UNCHANGED <<gcb, gcbcmds, gchanged, gcblock, global_g_lock, drawgraf,
                 make_square, suppress_next_newline_display, qt, commandlist,
                 isaflush, mthr, hist, colr, esc, pen, tick, zoom>>

\* The count bump without the test for Clear.
AddGraphicsBumpAlways ==
  /\ pc_d = "ag_bump"
  /\ gcbcmds' = gcbcmds + 1
  /\ pc_d' = "ag_release"
  /\ UNCHANGED <<gcb, gchanged, gcblock, global_g_lock, drawgraf, make_square,
                 suppress_next_newline_display, qt, commandlist, isaflush,
                 mthr, hist, colr, esc, pen, tick, zoom>>

\* 2899-2900: if command != 48: self.gcbcmds += 1
AddGraphicsBump ==
  /\ pc_d = "ag_bump"
  /\ gcbcmds' = IF commandlist[3] # 48 THEN gcbcmds + 1 ELSE gcbcmds
  /\ pc_d' = "ag_release"
  /\ UNCHANGED <<gcb, gchanged, gcblock, global_g_lock, drawgraf, make_square,
                 suppress_next_newline_display, qt, commandlist, isaflush,
                 mthr, hist, colr, esc, pen, tick, zoom>>

\* 2903: self.gcblockrelease()
AddGraphicsRelease ==
  /\ pc_d = "ag_release"
  /\ gcblockrelease
  /\ pc_d' = "ag_check"
  /\ UNCHANGED <<gcb, gcbcmds, gchanged, drawgraf, make_square,
                 suppress_next_newline_display, qt, commandlist, isaflush,
                 mthr, hist, colr, esc, pen, tick, zoom>>

\* The redraw test at whole multiples of the period.
RedrawDueAtMultiple == isaflush \/ gcbcmds % RedrawPeriod = 0

\* 2907: if isaflush or (((self.gcbcmds+1) % 1000) == 0)
RedrawDue == isaflush \/ (gcbcmds + 1) % RedrawPeriod = 0

AddGraphicsCheck ==
  /\ pc_d = "ag_check"
  /\ IF RedrawDue
     THEN pc_d' = "ag_setchanged" /\ UNCHANGED commandlist
     ELSE pc_d' = "idle" /\ commandlist' = <<>>
  /\ UNCHANGED <<widget, qt, isaflush, mthr, hist, colr, esc, pen, tick, zoom>>

\* The signal block storing 1 in gchanged instead of 2.
AddGraphicsSetChangedOnce ==
  /\ pc_d = "ag_setchanged"
  /\ gchanged' = 1
  /\ pc_d' = "ag_emit"
  /\ IF sigq = 0 /\ pc_m \notin InDoGrUpdate
     THEN bphase' = "raising" /\ burst' = 0 /\ nupd' = 0
     ELSE /\ bphase' = IF bphase = "raising" THEN "raising" ELSE "none"
          /\ UNCHANGED <<burst, nupd>>
  /\ UNCHANGED <<gcb, gcbcmds, gcblock, global_g_lock, drawgraf, make_square,
                 suppress_next_newline_display, qt, commandlist, isaflush,
                 mthr, ncalls, entry_gcb, entry_cmds, log, owed, colr, esc, pen, tick,
                 zoom>>

\* 2908: self.gchanged = 2 (written without the lock)
AddGraphicsSetChanged ==
  /\ pc_d = "ag_setchanged"
  /\ gchanged' = 2
  /\ pc_d' = "ag_emit"
  /\ IF sigq = 0 /\ pc_m \notin InDoGrUpdate
     THEN bphase' = "raising" /\ burst' = 0 /\ nupd' = 0
     ELSE /\ bphase' = IF bphase = "raising" THEN "raising" ELSE "none"
          /\ UNCHANGED <<burst, nupd>>
  /\ UNCHANGED <<gcb, gcbcmds, gcblock, global_g_lock, drawgraf, make_square,
                 suppress_next_newline_display, qt, commandlist, isaflush,
                 mthr, ncalls, entry_gcb, entry_cmds, log, owed, colr, esc, pen, tick,
                 zoom>>

\* 2909: self.trigger_doGrUpdate(1): the signal is emitted from the reading
\* thread, so Qt queues the call of doGrUpdate for the main thread.
AddGraphicsEmit ==
  /\ pc_d = "ag_emit"
  /\ sigq' = sigq + 1
  /\ pc_d' = "idle" /\ commandlist' = <<>>
  /\ IF bphase = "raising"
     THEN burst' = burst + 1 /\ UNCHANGED bphase
     ELSE bphase' = "none" /\ UNCHANGED burst
  /\ UNCHANGED <<widget, paintPending, isaflush, mthr, ncalls, entry_gcb,
                 entry_cmds, log, nupd, owed, colr, esc, pen, tick, zoom>>

\* The except clause without its release of the lock.
AddGraphicsExceptKeepsLock ==
  /\ pc_d = "ag_except"
  /\ pc_d' = "idle" /\ commandlist' = <<>>
  /\ UNCHANGED <<widget, qt, isaflush, mthr, hist, colr, esc, pen, tick, zoom>>

\* 2912-2915: except Exception: ... self.gcblockrelease()
AddGraphicsExcept ==
  /\ pc_d = "ag_except"
  /\ gcblockrelease
  /\ pc_d' = "idle" /\ commandlist' = <<>>
  /\ UNCHANGED <<gcb, gcbcmds, gchanged, drawgraf, make_square,
                 suppress_next_newline_display, qt, isaflush, mthr, hist, colr, esc, pen, tick,
                 zoom>>

(*************************************************************************)
(* The main thread: doGrUpdate(location), lines 2939-2955.               *)
(*************************************************************************)
\* Qt delivers one queued doGrUpdate call.
DoGrUpdateDeliver ==
  /\ pc_m = "idle" /\ sigq > 0
  /\ sigq' = sigq - 1
  /\ pc_m' = "gr_check"
  /\ bphase' = IF bphase \in {"raising", "handling"} /\ pc_d # "ag_emit"
               THEN "handling" ELSE "none"
  /\ UNCHANGED <<widget, paintPending, dthr, gr_tmp, rpos, ncalls, entry_gcb,
                 entry_cmds, log, burst, nupd, owed, colr, esc, pen, tick,
                 zoom>>

\* doGrUpdate without the test of gchanged.
DoGrUpdateCheckAlways ==
  /\ pc_m = "gr_check"
  /\ update
  /\ pc_m' = "gr_acquire"
  /\ nupd' = IF bphase = "handling" THEN nupd + 1 ELSE nupd
  /\ UNCHANGED <<widget, sigq, dthr, gr_tmp, rpos, ncalls, entry_gcb,
                 entry_cmds, log, bphase, burst, owed, colr, esc, pen, tick,
                 zoom>>

\* 2947-2948: if self.gchanged > 0: self.update()
DoGrUpdateCheck ==
  /\ pc_m = "gr_check"
  /\ IF gchanged > 0
     THEN /\ update
          /\ pc_m' = "gr_acquire"
          /\ nupd' = IF bphase = "handling" THEN nupd + 1 ELSE nupd
     ELSE /\ pc_m' = "idle"
          /\ UNCHANGED <<paintPending, nupd>>
  /\ UNCHANGED <<widget, sigq, dthr, gr_tmp, rpos, ncalls, entry_gcb,
                 entry_cmds, log, bphase, burst, owed, colr, esc, pen, tick,
                 zoom>>

\* 2950: self.gcblockacquire()
DoGrUpdateAcquire ==
  /\ pc_m = "gr_acquire"
  /\ gcblockacquire
  /\ pc_m' = "gr_read"
  /\ UNCHANGED <<gcb, gcbcmds, gchanged, drawgraf, make_square,
                 suppress_next_newline_display, qt, dthr, gr_tmp, rpos, hist,
                 colr, esc, pen, tick, zoom>>

\* 2951: self.gchanged -= 1 is a load, a subtraction and a store; the
\* reading thread's store of 2 (line 2908) can fall between them.
DoGrUpdateLoad ==
  /\ pc_m = "gr_read"
  /\ gr_tmp' = gchanged
  /\ pc_m' = "gr_write"
  /\ UNCHANGED <<widget, qt, dthr, rpos, hist, colr, esc, pen, tick, zoom>>

DoGrUpdateStore ==
  /\ pc_m = "gr_write"
  /\ gchanged' = gr_tmp - 1
  /\ pc_m' = "gr_release"
  /\ UNCHANGED <<gcb, gcbcmds, gcblock, global_g_lock, drawgraf, make_square,
                 suppress_next_newline_display, qt, dthr, gr_tmp, rpos, hist,
                 colr, esc, pen, tick, zoom>>

\* 2952: self.gcblockrelease()
DoGrUpdateRelease ==
  /\ pc_m = "gr_release"
  /\ gcblockrelease
  /\ pc_m' = "idle"
  /\ UNCHANGED <<gcb, gcbcmds, gchanged, drawgraf, make_square,
                 suppress_next_newline_display, qt, dthr, gr_tmp, rpos, hist,
                 colr, esc, pen, tick, zoom>>

(*************************************************************************)
(* The main thread: paintGL (1686-1724), cairoRenderGraphicsToTexture    *)
(* (3331-3340) and cairoRenderGraphics (3017-3317).                      *)
(*************************************************************************)
\* 1693, 1702: if self.drawgraf: if self.gcbcmds == 0: (info string) else: ...
PaintGL ==
  /\ pc_m = "idle" /\ paintPending
  /\ paintPending' = FALSE
  /\ pc_m' = IF drawgraf /\ gcbcmds # 0 THEN "pt_texture" ELSE "idle"
  /\ UNCHANGED <<widget, sigq, dthr, gr_tmp, rpos, hist, colr, esc, pen, tick, zoom>>

\* 3337: if self.gcbcmds > 0: (a second read of gcbcmds without the lock)
RenderToTexture ==
  /\ pc_m = "pt_texture"
  /\ pc_m' = IF gcbcmds > 0 THEN "rn_acquire" ELSE "idle"
  /\ UNCHANGED <<widget, qt, dthr, gr_tmp, rpos, hist, colr, esc, pen, tick, zoom>>

\* The locals of the replay and what it has stroked, as one record.
PenState ==
  [inaline |-> inaline, pending_move |-> pending_move, pm |-> pm, gcp |-> gcp,
   x_scale |-> x_scale, y_scale |-> y_scale, path |-> path, strokes |-> strokes,
   x_offset |-> x_offset, y_offset |-> y_offset, dpm |-> dpm, prims |-> prims]

SetPen(st) ==
  /\ inaline' = st.inaline /\ pending_move' = st.pending_move
  /\ pm' = st.pm /\ gcp' = st.gcp
  /\ x_scale' = st.x_scale /\ y_scale' = st.y_scale
  /\ path' = st.path /\ strokes' = st.strokes
  /\ x_offset' = st.x_offset /\ y_offset' = st.y_offset
  /\ dpm' = st.dpm /\ prims' = st.prims

\* 3026-3050: self.gcblockacquire() and the initial locals
RenderAcquire ==
  /\ pc_m = "rn_acquire"
  /\ gcblockacquire
  /\ rpos' = 1
  /\ pc_m' = "rn_loop"
  /\ SetPen(ReplayStart(make_square, to_x_pixels, to_y_pixels))
  /\ UNCHANGED <<gcb, gcbcmds, gchanged, drawgraf, make_square,
                 suppress_next_newline_display, qt, dthr, gr_tmp, hist, colr, esc,
                 to_x_pixels, to_y_pixels, tick, zoom>>

\* 3070-3309: one iteration of "for cmd in self.gcb".  The loop has no try:
\* an exception leaves cairoRenderGraphics and paintGL at once, and Qt's
\* event loop goes on with the next event.
RenderCommand ==
  /\ pc_m = "rn_loop" /\ rpos <= Len(gcb)
  /\ IF ReplayRaises(gcb[rpos], make_square)
     THEN /\ pc_m' = "idle" /\ rpos' = 0
          /\ SetPen(CloseLine(gcb[rpos][1], PenState))
          /\ UNCHANGED make_square
     ELSE /\ make_square' = SquareAfter(gcb[rpos], make_square)
          /\ SetPen(ReplayCommand(gcb[rpos], PenState, make_square,
                                  to_x_pixels, to_y_pixels))
          /\ rpos' = rpos + 1
          /\ UNCHANGED pc_m
  /\ UNCHANGED <<gcb, gcbcmds, gchanged, gcblock, global_g_lock, drawgraf,
                 suppress_next_newline_display, qt, dthr, gr_tmp, hist, colr, esc,
                 to_x_pixels, to_y_pixels, tick, zoom>>

\* 3312-3316: the loop is over: final stroke, self.gcblockrelease()
RenderRelease ==
  /\ pc_m = "rn_loop" /\ rpos > Len(gcb)
  /\ gcblockrelease
  /\ pc_m' = "idle" /\ rpos' = 0
  /\ owed' = FALSE
  /\ SetPen(CloseLine(0, PenState))
  /\ UNCHANGED <<gcb, gcbcmds, gchanged, drawgraf, make_square,
                 suppress_next_newline_display, qt, dthr, gr_tmp, ncalls,
                 entry_gcb, entry_cmds, log, bphase, burst, nupd, colr, esc,
                 to_x_pixels, to_y_pixels, tick, zoom>>

\* resizeGL(w, h), 1873-1874: the size the next replay draws to.
ResizeGL(w, h) ==
  /\ pc_m = "idle"
  /\ to_x_pixels' = w /\ to_y_pixels' = h
  /\ paintPending' = TRUE
  /\ UNCHANGED <<widget, sigq, dthr, mthr, hist, colr, esc, inaline, pending_move,
                 pm, gcp, x_scale, y_scale, path, strokes, x_offset, y_offset,
                 dpm, prims, tick, zoom>>

(*************************************************************************)
(* The main thread: GUI slots.                                           *)
(*************************************************************************)
\* clearScreen 2328-2330 (graphics view): self.gcblockacquire()
ClearScreenAcquire ==
  /\ pc_m = "idle" /\ drawgraf
  /\ gcblockacquire
  /\ pc_m' = "cs_clear"
  /\ UNCHANGED <<gcb, gcbcmds, gchanged, drawgraf, make_square,
                 suppress_next_newline_display, qt, dthr, gr_tmp, rpos, hist,
                 colr, esc, pen, tick, zoom>>

\* clearScreen taking away the newest entry only.
ClearScreenDropsLast ==
  /\ pc_m = "cs_clear"
  /\ gcbcmds' = 0 /\ gcb' = SubSeq(gcb, 1, Len(gcb) - 1) /\ gchanged' = 2
  /\ pc_m' = "cs_release"
  /\ owed' = FALSE /\ bphase' = "none" /\ burst' = 0 /\ nupd' = 0
  /\ UNCHANGED <<gcblock, global_g_lock, drawgraf, make_square,
                 suppress_next_newline_display, qt, dthr, gr_tmp, rpos, ncalls,
                 entry_gcb, entry_cmds, log, colr, esc, pen, tick, zoom>>

\* 2331-2333: self.gcbcmds = 0; self.gcb = []; self.gchanged = 2
ClearScreenClear ==
  /\ pc_m = "cs_clear"
  /\ gcbcmds' = 0 /\ gcb' = <<>> /\ gchanged' = 2
  /\ pc_m' = "cs_release"
  /\ owed' = FALSE /\ bphase' = "none" /\ burst' = 0 /\ nupd' = 0
  /\ UNCHANGED <<gcblock, global_g_lock, drawgraf, make_square,
                 suppress_next_newline_display, qt, dthr, gr_tmp, rpos, ncalls,
                 entry_gcb, entry_cmds, log, colr, esc, pen, tick, zoom>>

\* 2334-2336: self.gcblockrelease(); self.trigger_doGrUpdate(2).  The signal
\* is emitted on the receiver's own thread, so doGrUpdate is called at once.
ClearScreenRelease ==
  /\ pc_m = "cs_release"
  /\ gcblockrelease
  /\ pc_m' = "gr_check"
  /\ UNCHANGED <<gcb, gcbcmds, gchanged, drawgraf, make_square,
                 suppress_next_newline_display, qt, dthr, gr_tmp, rpos, hist,
                 colr, esc, pen, tick, zoom>>

\* clearScreen in the text view, 2337-2343: the text screen is emptied
\* under the screen lock; gcb and gcbcmds are not touched.
ClearScreenText ==
  /\ pc_m = "idle" /\ ~drawgraf
  /\ screen' = <<>>
  /\ pc_m' = "cs_text"
  /\ UNCHANGED <<widget, qt, dthr, gr_tmp, rpos, hist, colr,
                 escapeProcessFuncList, do_not_process_escapes, inescape,
                 escapeProcessFunc, escapeseq, numescape, grafescape, pc_s, char,
                 nread, pen, tick, zoom>>

\* 2345: self.trigger_doUpdate(5); doUpdate (2223-2224) finds changed = 2
\* and calls self.update().
ClearScreenTextUpdate ==
  /\ pc_m = "cs_text"
  /\ update
  /\ pc_m' = "idle"
  /\ UNCHANGED <<widget, sigq, dthr, gr_tmp, rpos, hist, colr, esc, pen, tick, zoom>>

\* viewGraphics 2918-2923
ViewGraphics ==
  /\ pc_m = "idle" /\ ~drawgraf
  /\ drawgraf' = TRUE
  /\ update
  /\ UNCHANGED <<gcb, gcbcmds, gchanged, gcblock, global_g_lock, make_square,
                 suppress_next_newline_display, sigq, dthr, mthr, hist, colr, esc, pen, tick,
                 zoom>>

\* viewText 2925-2930
ViewText ==
  /\ pc_m = "idle" /\ drawgraf
  /\ drawgraf' = FALSE
  /\ update
  /\ UNCHANGED <<gcb, gcbcmds, gchanged, gcblock, global_g_lock, make_square,
                 suppress_next_newline_display, sigq, dthr, mthr, hist, colr, esc, pen, tick,
                 zoom>>

(*************************************************************************)
(* The main thread: mouse handlers (2474-2590), as far as they touch the *)
(* zoom.  self.width_pixels and self.height_pixels are the size resizeGL *)
(* stored, which is the size paintGL hands to the replay.  The virtual   *)
(* keyboard and the text selection are other state.                      *)
(*************************************************************************)
\* xdiv = self.height_pixels if self.make_square else self.width_pixels
xdiv == IF make_square THEN to_y_pixels ELSE to_x_pixels

\* mousePressEvent starting a zoom box also when a zoom is active.
mousePressEvent_while_zoomed(x, y) ==
  /\ pc_m = "idle"
  /\ IF drawgraf
     THEN /\ zoom_rect' = [zoom_rect EXCEPT !.xlo = Frac(x, xdiv),
                                            !.ylo = Frac(to_y_pixels - y, to_y_pixels)]
          /\ zoom_box' = TRUE
          /\ raw_rect' = [raw_rect EXCEPT !.xlo = Frac(x, to_x_pixels),
                                          !.ylo = Frac(to_y_pixels - y, to_y_pixels)]
     ELSE UNCHANGED <<zoom_rect, zoom_box, raw_rect>>
  /\ UNCHANGED <<widget, qt, dthr, mthr, hist, colr, esc, pen, tick, zoomed,
                 view_rect>>

\* mousePressEvent 2494-2501 with the pointer at (x, y)
mousePressEvent(x, y) ==
  /\ pc_m = "idle"
  /\ IF drawgraf /\ ~zoomed
     THEN /\ zoom_rect' = [zoom_rect EXCEPT !.xlo = Frac(x, xdiv),
                                            !.ylo = Frac(to_y_pixels - y, to_y_pixels)]
          /\ zoom_box' = TRUE
          /\ raw_rect' = [raw_rect EXCEPT !.xlo = Frac(x, to_x_pixels),
                                          !.ylo = Frac(to_y_pixels - y, to_y_pixels)]
     ELSE UNCHANGED <<zoom_rect, zoom_box, raw_rect>>
  /\ UNCHANGED <<widget, qt, dthr, mthr, hist, colr, esc, pen, tick, zoomed,
                 view_rect>>

\* mouseMoveEvent 2569-2586 with a button down
mouseMoveEvent(x, y) ==
  /\ pc_m = "idle"
  /\ IF drawgraf /\ zoom_box /\ ~zoomed
     THEN /\ zoom_rect' = [zoom_rect EXCEPT !.xhi = Frac(x, xdiv),
                                            !.yhi = Frac(to_y_pixels - y, to_y_pixels)]
          /\ update
     ELSE /\ UNCHANGED zoom_rect
          /\ IF drawgraf THEN UNCHANGED paintPending ELSE update
  /\ UNCHANGED <<widget, sigq, dthr, mthr, hist, colr, esc, pen, tick, zoomed,
                 zoom_box, raw_rect, view_rect>>

\* mouseReleaseEvent 2518-2546 with the pointer at (x, y)
mouseReleaseEvent(x, y) ==
  /\ pc_m = "idle"
  /\ IF drawgraf /\ zoom_box /\ ~zoomed
     THEN LET zoom_xhi == Frac(x, xdiv)
              zoom_yhi == Frac(to_y_pixels - y, to_y_pixels)
              sxlo == NumMin(zoom_rect.xlo, zoom_xhi)
              sylo == NumMin(zoom_rect.ylo, zoom_yhi)
              sxhi == NumMax(zoom_rect.xlo, zoom_xhi)
              syhi == NumMax(zoom_rect.ylo, zoom_yhi)
              sxc  == NumMul(Frac(1, 2), NumAdd(sxlo, sxhi))
              syc  == NumMul(Frac(1, 2), NumAdd(sylo, syhi))
              ds   == NumMul(Frac(1, 4), NumAdd(NumSub(sxhi, sxlo), NumSub(syhi, sylo)))
          IN  /\ zoom_rect' = [zoom_rect EXCEPT !.xhi = zoom_xhi, !.yhi = zoom_yhi]
              /\ raw_rect' = [raw_rect EXCEPT !.xhi = Frac(x, to_x_pixels),
                                              !.yhi = zoom_yhi]
              /\ zoom_box' = FALSE
              \* if ds > 0.01:
              /\ IF NumLess(Frac(1, 100), ds)
                 THEN /\ view_rect' = [xlo |-> Canon(NumSub(sxc, ds)),
                                       ylo |-> Canon(NumSub(syc, ds)),
                                       xhi |-> Canon(NumAdd(sxc, ds)),
                                       yhi |-> Canon(NumAdd(syc, ds))]
                      /\ zoomed' = TRUE
                 ELSE UNCHANGED <<view_rect, zoomed>>
     ELSE UNCHANGED <<zoom_rect, raw_rect, zoom_box, view_rect, zoomed>>
  /\ update
  /\ UNCHANGED <<widget, sigq, dthr, mthr, hist, colr, esc, pen, tick>>

\* mouseDoubleClickEvent 2548-2562
mouseDoubleClickEvent ==
  /\ pc_m = "idle"
  /\ IF drawgraf /\ zoomed
     THEN /\ view_rect' = UnitRect
          /\ zoom_box' = FALSE
          /\ zoomed' = FALSE
     ELSE UNCHANGED <<view_rect, zoom_box, zoomed>>
  /\ update
  /\ UNCHANGED <<widget, sigq, dthr, mthr, hist, colr, esc, pen, tick, zoom_rect,
                 raw_rect>>

DecoderStep ==
  \/ AddGraphicsDecode \/ AddGraphicsBump \/ AddGraphicsRelease
  \/ AddGraphicsCheck \/ AddGraphicsSetChanged \/ AddGraphicsEmit
  \/ AddGraphicsExcept

MainStep ==
  \/ DoGrUpdateDeliver \/ DoGrUpdateCheck \/ DoGrUpdateAcquire
  \/ DoGrUpdateLoad \/ DoGrUpdateStore \/ DoGrUpdateRelease
  \/ PaintGL \/ RenderToTexture \/ RenderAcquire \/ RenderCommand
  \/ RenderRelease \/ ClearScreenClear \/ ClearScreenRelease

Next ==
  \/ \E p \in Payloads : AddGraphicsAcquire(p)
  \/ DecoderStep
  \/ MainStep
  \/ ClearScreenAcquire
  \/ ClearScreenText
  \/ ClearScreenTextUpdate
  \/ ViewGraphics
  \/ ViewText

Spec == Init /\ [][Next]_vars

(*************************************************************************)
(* The command count close to the redraw period.  RedrawPeriod - MaxCalls *)
(* payloads ESC[7z (BoundsFixed) bring the widget from Init to this      *)
(* state: each adds one to gcbcmds and appends nothing.                  *)
(*************************************************************************)
InitThresh == InitAt(RedrawPeriod - MaxCalls, FALSE, "off")

SpecThresh == InitThresh /\ [][Next]_vars

(*************************************************************************)
(* The graphics view is showing and stays showing (viewGraphics has been *)
(* called); Qt's event loop and the reading thread keep running.         *)
(*************************************************************************)
InitLive == InitAt(0, TRUE, "off")

NextLive ==
  \/ \E p \in Payloads : AddGraphicsAcquire(p)
  \/ DecoderStep
  \/ MainStep
  \/ ClearScreenAcquire

LiveSpec == InitLive /\ [][NextLive]_vars /\ WF_vars(DecoderStep) /\ WF_vars(MainStep)

(*************************************************************************)
(* Colour round trip between the host driver (GtermGraphics.colour in    *)
(* fixed mode, src/hostlibs/gterm_driver.py) and addGraphics.            *)
(*************************************************************************)
\* GtermGraphics.clamp
clamp(v, lo, hi) == IF v < lo THEN lo ELSE IF v > hi THEN hi ELSE v

\* clamp(int(999.9*r), 0, 999) for r = num/den in [0,1].  999.9*r is a
\* binary double: where the exact product is an integer k >= 1 the double
\* falls on either side of k, so int() gives k-1 or k.
DriverField(num, den) ==
  LET q     == (9999 * num) \div (10 * den)
      exact == (9999 * num) % (10 * den) = 0
  IN  {clamp(v, 0, ColourScale) : v \in IF exact /\ q >= 1 THEN {q - 1, q} ELSE {q}}

\* '{0:03d}'.format(n) for n in 0..999
Fmt3(n) == <<48 + (n \div 100), 48 + ((n \div 10) % 10), 48 + (n % 10)>>

\* '\033[1{0:03d}{1:03d}{2:03d}z'.format(ir, ig, ib)
ColourPayload(f) == <<27, 91, 49>> \o Fmt3(f[1]) \o Fmt3(f[2]) \o Fmt3(f[3]) \o <<122>>

\* The host sends a SetColour payload with the 3-digit fields n, 999-n, n.
ColourFromField(n) ==
  /\ cphase = "start"
  /\ cr' = <<[n |-> n, d |-> ColourScale], [n |-> ColourScale - n, d |-> ColourScale],
             [n |-> n, d |-> ColourScale]>>
  /\ cpayload' = ColourPayload(<<n, ColourScale - n, n>>)
  /\ cphase' = "field_sent"
  /\ UNCHANGED <<widget, qt, dthr, mthr, hist, cdec, esc, pen, tick, zoom>>

\* The host calls colour(r, g, b) with r = b = p/ColourGrid, g = 1 - r.
ColourFromValue(p) ==
  /\ cphase = "start"
  /\ cr' = <<[n |-> p, d |-> ColourGrid], [n |-> ColourGrid - p, d |-> ColourGrid],
             [n |-> p, d |-> ColourGrid]>>
  /\ \E ir \in DriverField(p, ColourGrid), ig \in DriverField(ColourGrid - p, ColourGrid),
        ib \in DriverField(p, ColourGrid) :
        cpayload' = ColourPayload(<<ir, ig, ib>>)
  /\ cphase' = "value_sent"
  /\ UNCHANGED <<widget, qt, dthr, mthr, hist, cdec, esc, pen, tick, zoom>>

\* addGraphics decodes the payload on the wire.
ColourDecode ==
  /\ cphase \in {"field_sent", "value_sent", "reencoded"}
  /\ cdec' = Decode(cpayload)
  /\ cphase' = CASE cphase = "field_sent" -> "field_decoded"
                  [] cphase = "value_sent" -> "value_decoded"
                  [] OTHER -> "redecoded"
  /\ UNCHANGED <<widget, qt, dthr, mthr, hist, cr, cpayload, esc, pen, tick, zoom>>

\* The decoded colour is passed to colour() again.
ColourReencode ==
  /\ cphase = "field_decoded" /\ cdec.ok
  /\ LET c == cdec.cmds[1]
     IN  \E ir \in DriverField(c[2].m, c[2].d), ig \in DriverField(c[3].m, c[3].d),
            ib \in DriverField(c[4].m, c[4].d) :
            cpayload' = ColourPayload(<<ir, ig, ib>>)
  /\ cphase' = "reencoded"
  /\ UNCHANGED <<widget, qt, dthr, mthr, hist, cr, cdec, esc, pen, tick, zoom>>

InitColour == InitAt(0, FALSE, "start")

NextColour ==
  \/ \E n \in 0..ColourScale : ColourFromField(n)
  \/ \E p \in 0..ColourGrid : ColourFromValue(p)
  \/ ColourDecode
  \/ ColourReencode

SpecColour == InitColour /\ [][NextColour]_vars

(*************************************************************************)
(* The escape sequence matcher: screenAddString, lines 2093-2153, and    *)
(* the dialect handlers, lines 3911-4021.                                *)
(*************************************************************************)
\* The number of bytes read from the server.
MaxBytes == 5

\* The bytes read: ESC LF '$' '3' '5' '@' '[' 'l' 'm' 'z'.
Bytes == {27, 10, 36, 51, 53, 64, 91, 108, 109, 122}

\* 1229: self.shownonprint = False
shownonprint == FALSE

\* The pairs (key, code) of cyber_apl_in_map.
cyber_apl_in_map ==
  {
   <<<<36, 109, 108>>, 200>>, <<<<36, 100, 118>>, 146>>, <<<<36, 109, 120>>, 198>>,
   <<<<36, 109, 110>>, 197>>, <<<<36, 108, 103>>, 254>>, <<<<36, 109, 100>>, 124>>,
   <<<<36, 99, 105>>, 195>>, <<<<36, 110, 101>>, 194>>, <<<<36, 116, 108>>, 126>>,
   <<<<36, 108, 101>>, 193>>, <<<<36, 103, 101>>, 192>>, <<<<36, 97, 110>>, 191>>,
   <<<<36, 111, 114>>, 190>>, <<<<36, 110, 100>>, 189>>, <<<<36, 110, 114>>, 188>>,
   <<<<36, 114, 111>>, 187>>, <<<<36, 99, 110>>, 186>>, <<<<36, 105, 111>>, 185>>,
   <<<<36, 120, 100>>, 184>>, <<<<36, 101, 112>>, 183>>, <<<<36, 117, 103>>, 182>>,
   <<<<36, 100, 103>>, 181>>, <<<<36, 100, 108>>, 180>>, <<<<36, 115, 109>>, 178>>,
   <<<<36, 98, 116>>, 179>>, <<<<36, 116, 97>>, 177>>, <<<<36, 100, 114>>, 176>>,
   <<<<36, 114, 116>>, 149>>, <<<<36, 114, 117>>, 158>>, <<<<36, 98, 118>>, 150>>,
   <<<<36, 114, 112>>, 151>>, <<<<36, 101, 118>>, 152>>, <<<<36, 102, 109>>, 153>>,
   <<<<36, 110, 108>>, 255>>, <<<<36, 116, 112>>, 154>>, <<<<36, 105, 115>>, 160>>,
   <<<<36, 113, 100>>, 156>>, <<<<36, 113, 112>>, 157>>, <<<<36, 98, 99>>, 162>>,
   <<<<36, 108, 100>>, 159>>, <<<<36, 103, 111>>, 155>>, <<<<36, 108, 112>>, 161>>,
   <<<<36, 100, 117>>, 163>>, <<<<36, 100, 105>>, 166>>, <<<<36, 110, 103>>, 174>>
  }

\* str.lower() on one character code.
Lower(c) == IF c \in 65..90 THEN c + 32 ELSE c

\* What a handler returns, with the list escapeseq it has appended to.
\* some tells a result list from None.
HandlerResult(stay, some, list, n, graf, seq) ==
  [stayEscape |-> stay, some |-> some, resultList |-> list, numescape |-> n,
   grafescape |-> graf, escapeseq |-> seq]

cyber_apl_escape(c, seq0, n) ==
  With(Append(seq0, c), LAMBDA seq :
    IF n + 1 = 3
    THEN LET key == <<Lower(seq[1]), Lower(seq[2]), Lower(seq[3])>>
             hit == {e \in cyber_apl_in_map : Len(seq) = 3 /\ e[1] = key}
         IN  IF hit # {}
             THEN HandlerResult(FALSE, TRUE, <<(CHOOSE e \in hit : TRUE)[2]>>,
                                0, FALSE, seq)
             ELSE HandlerResult(FALSE, TRUE, seq, 0, FALSE, seq)
    ELSE HandlerResult(TRUE, FALSE, <<>>, n + 1, FALSE, seq))

\* 'A' 'B' 'C' 'D' 'E' 'F' 'G' 'H' 'J' 'K' 'S' 'T' 'f' 'm' 'n' 's' 'u' 'l'
\* 'h' 'z' 'Z'
ansiendchars == {65, 66, 67, 68, 69, 70, 71, 72, 74, 75, 83, 84, 102, 109,
                 110, 115, 117, 108, 104, 122, 90}

ansi_escape(c, seq0, n) ==
  With(Append(seq0, c), LAMBDA seq :
    IF n + 1 = 1 THEN HandlerResult(TRUE, FALSE, <<>>, 1, FALSE, seq)
    ELSE IF n + 1 = 2
    THEN IF c # 91 THEN HandlerResult(FALSE, TRUE, seq, 0, FALSE, seq)
         ELSE HandlerResult(TRUE, FALSE, <<>>, 2, FALSE, seq)
    ELSE IF c \in ansiendchars
         THEN IF c = 122 \/ c = 90
              THEN HandlerResult(FALSE, TRUE, seq, 0, TRUE, seq)
              ELSE HandlerResult(FALSE, FALSE, <<>>, 0, FALSE, seq)
         ELSE HandlerResult(TRUE, FALSE, <<>>, n + 1, FALSE, seq))

cyber_apl_graphics_escape(c, seq0, n) ==
  With(Append(seq0, c), LAMBDA seq :
    IF n + 1 = 1 THEN HandlerResult(TRUE, FALSE, <<>>, 1, FALSE, seq)
    ELSE IF n + 1 = 2
    THEN IF c # 91 THEN HandlerResult(FALSE, TRUE, seq, 0, FALSE, seq)
         ELSE HandlerResult(TRUE, FALSE, <<>>, 2, FALSE, seq)
    ELSE IF c = 64
         THEN HandlerResult(FALSE, TRUE, seq, 0, TRUE, seq)
         ELSE HandlerResult(TRUE, FALSE, <<>>, n + 1, FALSE, seq))

\* self.escapeProcessFunc(char, ichar, self.escapeseq, self.numescape)
CallHandler(f, c, seq, n) ==
  CASE f = "cyber_apl_escape" -> cyber_apl_escape(c, seq, n)
    [] f = "ansi_escape" -> ansi_escape(c, seq, n)
    [] f = "cyber_apl_graphics_escape" -> cyber_apl_graphics_escape(c, seq, n)

\* The lists setEscapeProcessFunc builds in TerminalDialog.mode.
Registrations ==
  { <<<<36, "cyber_apl_escape">>, <<64, "cyber_apl_graphics_escape">>>>,
    <<<<27, "ansi_escape">>>>,
    <<<<27, "ansi_escape">>, <<64, "cyber_apl_graphics_escape">>>> }

\* The handlers registered for testchar, in list order.
Registered(testchar) ==
  {k \in 1..Len(escapeProcessFuncList) : escapeProcessFuncList[k][1] = testchar}

\* 2184-2205.  The loop has no break: the last match would win, and
\* setEscapeProcessFunc admits one entry for each character.
Max(S) == CHOOSE k \in S : \A j \in S : j <= k

\* checkEscapeStart without the reset of the accumulated sequence.
checkEscapeStart_keep_buffer(testchar) ==
  IF inescape \/ escapeProcessFuncList = <<>> \/ Registered(testchar) = {}
  THEN UNCHANGED <<inescape, escapeseq, escapeProcessFunc, numescape, grafescape>>
  ELSE /\ inescape' = TRUE
       /\ escapeProcessFunc' = escapeProcessFuncList[Max(Registered(testchar))][2]
       /\ numescape' = 0
       /\ grafescape' = FALSE
       /\ UNCHANGED escapeseq

\* checkEscapeStart without the test of self.inescape.
checkEscapeStart_restart(testchar) ==
  IF escapeProcessFuncList = <<>> \/ Registered(testchar) = {}
  THEN UNCHANGED <<inescape, escapeseq, escapeProcessFunc, numescape, grafescape>>
  ELSE /\ inescape' = TRUE
       /\ escapeseq' = <<>>
       /\ escapeProcessFunc' = escapeProcessFuncList[Max(Registered(testchar))][2]
       /\ numescape' = 0
       /\ grafescape' = FALSE

checkEscapeStart(testchar) ==
  IF inescape \/ escapeProcessFuncList = <<>> \/ Registered(testchar) = {}
  THEN UNCHANGED <<inescape, escapeseq, escapeProcessFunc, numescape, grafescape>>
  ELSE /\ inescape' = TRUE
       /\ escapeseq' = <<>>
       /\ escapeProcessFunc' = escapeProcessFuncList[Max(Registered(testchar))][2]
       /\ numescape' = 0
       /\ grafescape' = FALSE

\* 2347-2351: char in string.printable and char != '\r'
printableChar(c) == c \in 32..126 \/ c \in {9, 10, 11, 12}

\* 2071-2091: the line gets charnum, or the call leaves the line alone.
screenAddCharSimple(charnum, is_printable) ==
  IF is_printable \/ shownonprint THEN <<"add", charnum>> ELSE <<"drop", charnum>>

\* 2113-2127: the characters the screen acts on before the matcher is asked.
ControlChars == {10, 13, 7, 8, 9, 12}

ControlEvent(c) ==
  CASE c = 10 -> IF suppress_next_newline_display THEN <<"swallow", c>>
                 ELSE <<"newline", c>>
    [] c = 13 -> <<"return", c>>
    [] c = 7 -> <<"bell", c>>
    [] c = 8 -> <<"backspace", c>>
    [] c = 9 -> <<"tab", c>>
    [] c = 12 -> <<"formfeed", c>>

\* 2102-2133: one character of the string is taken; a control character is
\* acted on at once, any other is shown to checkEscapeStart.
ScreenTakeChar(b) ==
  /\ pc_s = "next" /\ pc_d = "idle" /\ nread < MaxBytes
  /\ char' = b /\ nread' = nread + 1
  /\ IF b \in ControlChars
     THEN /\ screen' = Append(screen, ControlEvent(b))
          /\ suppress_next_newline_display' =
               IF b = 10 THEN FALSE ELSE suppress_next_newline_display
          /\ UNCHANGED <<inescape, escapeseq, escapeProcessFunc, numescape,
                         grafescape, pc_s>>
     ELSE /\ IF do_not_process_escapes
             THEN /\ inescape' = FALSE
                  /\ UNCHANGED <<escapeseq, escapeProcessFunc, numescape, grafescape>>
             ELSE checkEscapeStart(b)
          /\ pc_s' = "dispatch"
          /\ UNCHANGED <<screen, suppress_next_newline_display>>
  /\ UNCHANGED <<gcb, gcbcmds, gchanged, gcblock, global_g_lock, drawgraf,
                 make_square, qt, dthr, mthr, hist, colr, escapeProcessFuncList,
                 do_not_process_escapes, pen, tick, zoom>>

\* 2137-2153 with no handler call: the character goes to the screen, or,
\* in an escape with no handler, nowhere.
ScreenText ==
  /\ pc_s = "dispatch" /\ ~(inescape /\ escapeProcessFunc # "None")
  /\ screen' = IF inescape THEN screen
               ELSE Append(screen, screenAddCharSimple(char, printableChar(char)))
  /\ pc_s' = "next"
  /\ UNCHANGED <<widget, qt, dthr, mthr, hist, colr, escapeProcessFuncList,
                 do_not_process_escapes, inescape, escapeProcessFunc, escapeseq,
                 numescape, grafescape, char, nread, pen, tick, zoom>>

\* The characters of a result list added to the screen, 2146-2147.
AddAll(list) == [k \in 1..Len(list) |-> screenAddCharSimple(list[k], TRUE)]

\* The routing with every result list taken for graphics.
RouteAllToGraphics(r) == r.some

\* 2142-2144: a result list goes to addGraphics when grafescape is set.
RouteToGraphics(r) == r.some /\ r.grafescape

\* 2137-2150: the handler is called and its result routed.  A graphics
\* result enters addGraphics; the handler is dropped when that returns.
ScreenDispatch ==
  /\ pc_s = "dispatch" /\ inescape /\ escapeProcessFunc # "None"
  /\ LET r == CallHandler(escapeProcessFunc, char, escapeseq, numescape)
     IN
       /\ escapeseq' = r.escapeseq
       /\ grafescape' = r.grafescape
       /\ inescape' = r.stayEscape
       /\ IF RouteToGraphics(r)
          THEN /\ AddGraphicsEnter(r.resultList)
               /\ numescape' = r.numescape
               /\ pc_s' = "graphics"
               /\ UNCHANGED <<screen, escapeProcessFunc, suppress_next_newline_display>>
          ELSE /\ screen' = IF r.some THEN screen \o AddAll(r.resultList) ELSE screen
               /\ escapeProcessFunc' = IF r.stayEscape THEN escapeProcessFunc ELSE "None"
               /\ numescape' = IF r.stayEscape THEN r.numescape ELSE 0
               /\ pc_s' = "next"
               /\ UNCHANGED <<widget, qt, dthr, mthr, hist, colr, pen, tick, zoom>>
  /\ UNCHANGED <<escapeProcessFuncList, do_not_process_escapes, char, nread>>

\* 2148-2150 after addGraphics has returned.
ScreenGraphicsDone ==
  /\ pc_s = "graphics" /\ pc_d = "idle"
  /\ escapeProcessFunc' = IF inescape THEN escapeProcessFunc ELSE "None"
  /\ numescape' = IF inescape THEN numescape ELSE 0
  /\ pc_s' = "next"
  /\ UNCHANGED <<widget, qt, dthr, mthr, hist, colr, escapeProcessFuncList,
                 do_not_process_escapes, inescape, escapeseq, grafescape, char,
                 screen, nread, pen, tick, zoom>>

\* The widget in each terminal mode, with escape processing on or off.
InitMatch ==
  /\ InitCore(0, FALSE, "off")
  /\ \E list \in Registrations, noesc \in BOOLEAN : InitEscape(list, noesc)

\* The reading thread alone: the characters and the addGraphics calls the
\* matcher makes.
NextMatch ==
  \/ \E b \in Bytes : ScreenTakeChar(b)
  \/ ScreenText
  \/ ScreenDispatch
  \/ ScreenGraphicsDone
  \/ AddGraphicsDecode
  \/ AddGraphicsBump
  \/ AddGraphicsRelease
  \/ AddGraphicsCheck
  \/ AddGraphicsSetChanged
  \/ AddGraphicsEmit
  \/ AddGraphicsExcept

SpecMatch == InitMatch /\ [][NextMatch]_vars
(*************************************************************************)
(* The replay alone: cairoRenderGraphics over the buffers that short     *)
(* runs of alt-mode payloads leave, on two device sizes.                 *)
(*************************************************************************)
\* The number of commands in the buffer.
MaxCmds == 4

MoveTo11   == <<64, 91, 51, 32, 48, 46, 49, 32, 48, 46, 49, 32, 64>> \* @[3 0.1 0.1 @
DrawTo97   == <<64, 91, 52, 32, 48, 46, 57, 32, 48, 46, 55, 32, 64>> \* @[4 0.9 0.7 @
DrawTo55   == <<64, 91, 52, 32, 48, 46, 53, 32, 48, 46, 53, 32, 64>> \* @[4 0.5 0.5 @
ColourRed  == <<64, 91, 49, 32, 49, 32, 48, 32, 48, 32, 64>>         \* @[1 1 0 0 @
RelMove11  == <<64, 91, 72, 32, 48, 46, 49, 32, 48, 46, 49, 32, 64>> \* @[H 0.1 0.1 @
RelDraw00  == <<64, 91, 73, 32, 48, 32, 48, 32, 64>>                 \* @[I 0 0 @
Bounds1020 == <<64, 91, 55, 32, 48, 32, 48, 32, 49, 48, 32, 50, 48, 32, 64>> \* @[7 0 0 10 20 @
BoundsFlat == <<64, 91, 55, 32, 48, 32, 48, 32, 48, 32, 48, 46, 53, 32, 64>> \* @[7 0 0 0 0.5 @

ReplayPayloads == {MoveTo11, DrawTo97, DrawTo55, ColourRed, RelMove11, RelDraw00,
                   Bounds1020, BoundsFlat, SquareOn}

\* The window sizes: the initial one and a small one.
SmallW == 200
SmallH == 100
DeviceSizes == {<<DevW, DevH>>, <<SmallW, SmallH>>}

\* The buffer after addGraphics has decoded the payloads ps in turn.
BufferOf(ps) ==
  LET buf[k \in 0..Len(ps)] ==
        IF k = 0 THEN <<>> ELSE buf[k - 1] \o Decode(ps[k]).cmds
  IN  buf[Len(ps)]

\* The graphics view is showing a buffer of up to MaxCmds commands and a
\* paint is due.
InitReplay ==
  \E n \in 1..MaxCmds : \E ps \in [1..n -> ReplayPayloads] :
    /\ InitWidget(BufferOf(ps), n, TRUE, "off")
    /\ InitEscape(<<>>, FALSE)

NextReplay ==
  \/ \E sz \in DeviceSizes : ResizeGL(sz[1], sz[2])
  \/ PaintGL
  \/ RenderToTexture
  \/ RenderAcquire
  \/ RenderCommand
  \/ RenderRelease

SpecReplay == InitReplay /\ [][NextReplay]_vars

(*************************************************************************)
(* The tick functions: tick_step and tick_values, lines 2969-2995 (and   *)
(* the same functions in src/grid.py), on whole-number data.             *)
(*************************************************************************)
\* The largest data range, and the exponents tried for the magnitude.
MaxRange == 120
MaxMag == 4

\* The lower ends of the data, the spans to the other end (negative spans
\* give data_min > data_max) and the values of max_ticks the replay passes.
TickStarts == {-7, 0, 3}
TickSpans == (0 - 6)..MaxRange
TickCounts == {10, 15}

\* data_range / ticks >= 10^k
AtLeastPow10(data_range, ticks, k) ==
  IF k >= 0 THEN data_range >= ticks * Pow10(k)
  ELSE data_range * Pow10(0 - k) >= ticks

\* floor(log(minimum_step, 10) + 1e-9).  No minimum_step of the data here
\* lies within 1e-9 below a power of ten, where the sum would round up.
Magnitude(data_range, ticks) ==
  CHOOSE k \in (0 - MaxMag)..MaxMag :
    AtLeastPow10(data_range, ticks, k) /\ ~AtLeastPow10(data_range, ticks, k + 1)

\* residual > c, for residual = minimum_step / 10^k
ResidualAbove(data_range, ticks, k, c) ==
  IF k >= 0 THEN data_range > c * ticks * Pow10(k)
  ELSE data_range * Pow10(0 - k) > c * ticks

\* tick_step with the step table read one place late: 5, 2, 1, 1.
tick_step_late(data_range, ticks) ==
  With(Magnitude(data_range, ticks), LAMBDA k :
    IF ResidualAbove(data_range, ticks, k, 5) THEN [m |-> 5, e |-> k]
    ELSE IF ResidualAbove(data_range, ticks, k, 2) THEN [m |-> 2, e |-> k]
    ELSE [m |-> 1, e |-> k])

\* The step m * 10^e that tick_step returns.
tick_step(data_range, ticks) ==
  With(Magnitude(data_range, ticks), LAMBDA k :
    IF ResidualAbove(data_range, ticks, k, 5) THEN [m |-> 10, e |-> k]
    ELSE IF ResidualAbove(data_range, ticks, k, 2) THEN [m |-> 5, e |-> k]
    ELSE IF ResidualAbove(data_range, ticks, k, 1) THEN [m |-> 2, e |-> k]
    ELSE [m |-> 1, e |-> k])

\* floor(v / step) and ceil(v / step) for a whole number v.
FloorDiv(v, step) ==
  IF step.e >= 0 THEN v \div (step.m * Pow10(step.e))
  ELSE (v * Pow10(0 - step.e)) \div step.m

CeilDiv(v, step) == 0 - FloorDiv(0 - v, step)

\* The values i * step for i in range(istep_min, istep_max), each as
\* m * 10^e.
StepValues(lo, hi, step) ==
  LET istep_min == FloorDiv(lo, step)
      istep_max == CeilDiv(hi, step) + 1
  IN  [j \in 1..(istep_max - istep_min) |->
         [m |-> (istep_min + j - 1) * step.m, e |-> step.e]]

\* 2981-2987: no ticks for equal ends; the ends are put in order.
TickValuesEnter ==
  /\ tphase = "start"
  /\ IF data_min = data_max
     THEN tphase' = "done" /\ UNCHANGED <<data_min, data_max>>
     ELSE /\ tphase' = "step"
          /\ data_min' = IF data_min > data_max THEN data_max ELSE data_min
          /\ data_max' = IF data_min > data_max THEN data_min ELSE data_max
  /\ UNCHANGED <<widget, qt, dthr, mthr, hist, colr, esc, pen, max_ticks, tstep,
                 tvalues, lphase, tick_vals, labels, scale_label, zoom>>

\* 2988-2989: step = self.tick_step(data_range, max_ticks)
TickStepCall ==
  /\ tphase = "step"
  /\ tstep' = tick_step(data_max - data_min, max_ticks)
  /\ tphase' = "values"
  /\ UNCHANGED <<widget, qt, dthr, mthr, hist, colr, esc, pen, data_min, data_max,
                 max_ticks, tvalues, lphase, tick_vals, labels, scale_label,
                 zoom>>

\* 2990-2995: the list of values
TickValuesLoop ==
  /\ tphase = "values"
  /\ tvalues' = StepValues(data_min, data_max, tstep)
  /\ tphase' = "done"
  /\ UNCHANGED <<widget, qt, dthr, mthr, hist, colr, esc, pen, data_min, data_max,
                 max_ticks, tstep, lphase, tick_vals, labels, scale_label,
                 zoom>>

\* A call tick_values(data_min, data_max, max_ticks) is about to run.
InitTick ==
  /\ InitGraphics(<<>>, 0, FALSE, "off")
  /\ InitEscape(<<>>, FALSE)
  /\ tphase = "start"
  /\ data_min \in TickStarts
  /\ \E span \in TickSpans : data_max = data_min + span
  /\ max_ticks \in TickCounts
  /\ tstep = [m |-> 0, e |-> 0] /\ tvalues = <<>>
  /\ LabelIdle

NextTick ==
  \/ TickValuesEnter
  \/ TickStepCall
  \/ TickValuesLoop

SpecTick == InitTick /\ [][NextTick]_vars

(*************************************************************************)
(* tick_labels: the label of each tick and the common scale label.       *)
(* Tick values are whole numbers of hundredths; strings are sequences of *)
(* character codes.                                                      *)
(*************************************************************************)
MaxLabels == 3

\* Tick values in hundredths: 0, 0.05, 5.0, 5.2, 5.25, -7.0 and 120.0.
LabelValues == {0, 5, 500, 520, 525, 0 - 700, 12000}

\* str(n) for a whole number n >= 0
RECURSIVE Digits(_)
Digits(n) == IF n < 10 THEN <<48 + n>> ELSE Digits(n \div 10) \o <<48 + (n % 10)>>

\* str(k) for an integer k
IntStr(k) == IF k < 0 THEN <<45>> \o Digits(0 - k) ELSE Digits(k)

\* '{0:.2f}'.format(v / 10^k) for v in hundredths: the quotient rounded to
\* the nearest hundredth, keeping the sign of v.  No value here lies half
\* way between two hundredths.
Fmt2(v, k) ==
  With(IF k <= 0 THEN Abs(v) * Pow10(0 - k)
       ELSE (2 * Abs(v) + Pow10(k)) \div (2 * Pow10(k)),
       LAMBDA q :
         (IF v < 0 THEN <<45>> ELSE <<>>)
           \o Digits(q \div 100) \o <<46, 48 + ((q \div 10) % 10), 48 + (q % 10)>>)

\* 32-36: the last character is dropped when it is '0'.
trail_0_suppress(valstr) ==
  IF valstr[Len(valstr)] = 48 THEN SubSeq(valstr, 1, Len(valstr) - 1) ELSE valstr

\* 38: maxvalue, in hundredths
maxvalue(vals) ==
  IF Abs(vals[1]) > Abs(vals[Len(vals)]) THEN Abs(vals[1]) ELSE Abs(vals[Len(vals)])

\* 39: floor(log(maxvalue, 10) + 1e-9), the exponent k of magnitude = 10^k
LabelMagnitude(vals) ==
  CHOOSE k \in (0 - 2)..MaxMag :
    maxvalue(vals) >= Pow10(k + 2) /\ maxvalue(vals) < Pow10(k + 3)

\* 42: magnitude < 0.1 or magnitude > 10.0
Scaled(vals) == LabelMagnitude(vals) < 0 - 1 \/ LabelMagnitude(vals) > 1

\* 37-43: math.log raises ValueError for maxvalue 0; otherwise the scale
\* label is chosen.
TickLabelsEnter ==
  /\ lphase = "start"
  /\ IF maxvalue(tick_vals) = 0
     THEN lphase' = "raised" /\ UNCHANGED scale_label
     ELSE /\ lphase' = "loop"
          /\ scale_label' = IF Scaled(tick_vals)
                            THEN <<120, 32, 49, 48, 94>> \o IntStr(LabelMagnitude(tick_vals))
                            ELSE <<>>
  /\ UNCHANGED <<widget, qt, dthr, mthr, hist, colr, esc, pen, tphase, data_min,
                 data_max, max_ticks, tstep, tvalues, tick_vals, labels,
                 zoom>>

\* 44-48: one iteration of either loop
TickLabelsLoop ==
  /\ lphase = "loop" /\ Len(labels) < Len(tick_vals)
  /\ labels' = Append(labels,
                 trail_0_suppress(Fmt2(tick_vals[Len(labels) + 1],
                                       IF Scaled(tick_vals)
                                       THEN LabelMagnitude(tick_vals) ELSE 0)))
  /\ UNCHANGED <<widget, qt, dthr, mthr, hist, colr, esc, pen, tphase, data_min,
                 data_max, max_ticks, tstep, tvalues, lphase, tick_vals, scale_label,
                 zoom>>

\* 49: return (labels, scale_label)
TickLabelsReturn ==
  /\ lphase = "loop" /\ Len(labels) = Len(tick_vals)
  /\ lphase' = "done"
  /\ UNCHANGED <<widget, qt, dthr, mthr, hist, colr, esc, pen, tphase, data_min,
                 data_max, max_ticks, tstep, tvalues, tick_vals, labels, scale_label,
                 zoom>>

\* A call tick_labels(tick_vals) is about to run.
InitLabel ==
  /\ InitGraphics(<<>>, 0, FALSE, "off")
  /\ InitEscape(<<>>, FALSE)
  /\ tphase = "off" /\ data_min = 0 /\ data_max = 0 /\ max_ticks = 0
  /\ tstep = [m |-> 0, e |-> 0] /\ tvalues = <<>>
  /\ lphase = "start" /\ labels = <<>> /\ scale_label = <<>>
  /\ \E n \in 1..MaxLabels : tick_vals \in [1..n -> LabelValues]

NextLabel ==
  \/ TickLabelsEnter
  \/ TickLabelsLoop
  \/ TickLabelsReturn

SpecLabel == InitLabel /\ [][NextLabel]_vars

(*************************************************************************)
(* Replay of buffers of SetBounds and SetSquareMode commands, with spans *)
(* that are positive, zero, negative, and beyond the largest double.     *)
(*************************************************************************)
BoundsBack == <<64, 91, 55, 32, 49, 48, 32, 50, 48, 32, 48, 32, 48, 32, 64>> \* @[7 10 20 0 0 @
BoundsWide == <<64, 91, 55, 32, 36, 78, 71, 49, 69, 51, 48, 56, 32, 48, 32,
                49, 69, 51, 48, 56, 32, 49, 32, 64>>         \* @[7 $NG1E308 0 1E308 1 @

ScalePayloads == {Bounds1020, BoundsFlat, BoundsBack, BoundsWide, SquareOn}

InitScale ==
  \E n \in 1..MaxCmds : \E ps \in [1..n -> ScalePayloads] :
    /\ InitWidget(BufferOf(ps), n, TRUE, "off")
    /\ InitEscape(<<>>, FALSE)

SpecScale == InitScale /\ [][NextReplay]_vars

(*************************************************************************)
(* addGraphics over the opcode bytes: payloads of both encodings with    *)
(* every opcode byte of the table and two bytes outside it.              *)
(*************************************************************************)
\* 2730-2896: the bytes the if/elif chain tests for, '0'..'9' and 'A'..'I'.
OpcodeBytes == (48..57) \cup (65..73)

\* '$' and 'J': bytes no branch tests for.
UnknownBytes == {36, 74}

NineDigits == <<48, 48, 48, 48, 57, 57, 57, 57, 48>>  \* 000099990
AllNines   == <<57, 57, 57, 57, 57, 57, 57, 57, 57>>  \* 999999999
FourTokens == <<32, 49, 32, 50, 32, 51, 32, 52, 32>>  \* " 1 2 3 4 "
\* " $NG1E$NG10 $NG2 3 4 "
NegTokens ==
  <<32, 36, 78, 71, 49, 69, 36, 78, 71, 49, 48, 32, 36, 78, 71, 50, 32, 51,
    32, 52, 32>>

\* ESC [ opcode arguments z, and @ [ opcode arguments @.
EscPayload(op, args) == <<27, 91, op>> \o args \o <<122>>
AltPayload(op, args) == <<64, 91, op>> \o args \o <<64>>

OpcodePayloads ==
  {EscPayload(op, NineDigits) : op \in OpcodeBytes \cup UnknownBytes}
    \cup {EscPayload(op, AllNines) : op \in {49, 51, 52, 54}}
    \cup {EscPayload(op, FourTokens) : op \in {55, 56, 57, 68}}
    \cup {AltPayload(op, FourTokens) : op \in {51, 55} \cup UnknownBytes}
    \cup {AltPayload(op, NegTokens) : op \in {49, 51, 54, 70}}

NextOpcode ==
  \/ \E p \in OpcodePayloads : AddGraphicsAcquire(p)
  \/ DecoderStep

SpecOpcode == Init /\ [][NextOpcode]_vars

(*************************************************************************)
(* The zoom: a buffer on show in the graphics view, the mouse, and the   *)
(* decoder, clearScreen and the replay next to it.                       *)
(*************************************************************************)
BoundsTok == <<64, 91, 55, 32, 49, 48, 32, 50, 48, 32, 51, 48, 32, 54, 48, 32, 64>> \* @[7 10 20 30 60 @
MoveTok   == <<64, 91, 51, 32, 49, 53, 32, 51, 48, 32, 64>>           \* @[3 15 30 @
DrawTok   == <<64, 91, 52, 32, 50, 53, 32, 53, 48, 32, 64>>           \* @[4 25 50 @
PointTok  == <<64, 91, 68, 32, 50, 48, 32, 52, 48, 32, 64>>           \* @[D 20 40 @
CircleTok == <<64, 91, 70, 32, 50, 48, 32, 52, 48, 32, 53, 32, 64>>   \* @[F 20 40 5 @

\* What the host has sent before the user takes the mouse.
ZoomBuffers == {<<BoundsTok, MoveTok, DrawTok, CircleTok>>,
                <<SquareOn, BoundsTok, PointTok>>}

\* What it sends afterwards: ZoomCalls payloads at most.
ZoomPayloads == {ClearFixed, CircleTok}
ZoomCalls == 1

\* Where the pointer is at a mouse event (pixels, y downwards).
MousePoints == {<<200, 525>>, <<600, 175>>}

InitZoom ==
  \E ps \in ZoomBuffers :
    /\ InitWidget(BufferOf(ps), Len(ps), TRUE, "off")
    /\ InitEscape(<<>>, FALSE)

NextZoom ==
  \/ \E pt \in MousePoints : mousePressEvent(pt[1], pt[2])
  \/ \E pt \in MousePoints : mouseMoveEvent(pt[1], pt[2])
  \/ \E pt \in MousePoints : mouseReleaseEvent(pt[1], pt[2])
  \/ mouseDoubleClickEvent
  \/ \E p \in ZoomPayloads : ncalls < ZoomCalls /\ AddGraphicsAcquire(p)
  \/ AddGraphicsDecode \/ AddGraphicsBump \/ AddGraphicsRelease
  \/ AddGraphicsCheck \/ AddGraphicsSetChanged \/ AddGraphicsEmit
  \/ DoGrUpdateDeliver \/ DoGrUpdateCheck \/ DoGrUpdateAcquire
  \/ DoGrUpdateLoad \/ DoGrUpdateStore \/ DoGrUpdateRelease
  \/ PaintGL \/ RenderToTexture \/ RenderAcquire \/ RenderCommand
  \/ RenderRelease
  \/ ClearScreenAcquire \/ ClearScreenClear \/ ClearScreenRelease
  \/ ViewGraphics
  \/ ViewText

SpecZoom == InitZoom /\ [][NextZoom]_vars

(*************************************************************************)
(* Properties.                                                           *)
(*************************************************************************)
\* The positions at which each thread is between an acquire and the
\* matching release of gcblock.
DecoderHolds == pc_d \in {"ag_decode", "ag_bump", "ag_release", "ag_except"}
MainHolds    == pc_m \in {"gr_read", "gr_write", "gr_release", "rn_loop",
                          "cs_clear", "cs_release"}

\* C1: the command buffer is never appended to or cleared while a replay
\* iteration is in progress.  The decoder, clearScreen and the replay are
\* inside their critical sections only with gcblock held, never two of them
\* at once, and every change of gcb is made with the lock held and outside
\* the replay loop.
C1_ReplaySeesWholeMutations ==
  /\ []((DecoderHolds \/ MainHolds) => gcblock)
  /\ [](~(DecoderHolds /\ MainHolds))
  /\ [][(pc_m = "rn_loop" => gcb' = gcb)
         /\ (gcb' # gcb => (gcblock /\ pc_m # "rn_loop"))]_vars

\* A replay has gone past its first command while the reading thread has a
\* further payload to add.
C1_Witness ==
  pc_m = "rn_loop" /\ rpos = 2 /\ pc_d = "idle" /\ ncalls < MaxCalls

\* C2: whenever both threads are at rest the buffer lock is free (each
\* acquisition has been followed by its release).
C2_LockFreeAtRest == (pc_d = "idle" /\ pc_m = "idle") => ~gcblock

\* C3: once a Clear (opcode 0) has been decoded, the buffer is empty and the
\* command count is 0 for the rest of the call, whatever had been appended
\* before; both are reset inside the same critical section.
C3_ClearEmptiesBuffer ==
  (pc_d \in {"ag_bump", "ag_release", "ag_check", "ag_setchanged", "ag_emit"}
     /\ commandlist[3] = 48)
  => /\ gcb = <<>> /\ gcbcmds = 0
     /\ pc_d \in {"ag_bump", "ag_release"} => gcblock

\* A Clear has been decoded after two commands had been appended.
C3_Witness ==
  pc_d = "ag_release" /\ commandlist[3] = 48 /\ Len(entry_gcb) = 2

\* C4: whenever no decode is in progress the command count equals the
\* number of commands in the buffer.
C4_CountIsLength == pc_d = "idle" => gcbcmds = Len(gcb)

\* C5: when decoding raises, the buffer and the command count are what they
\* were when the call took the lock; the except clause releases the lock,
\* leaves gchanged and the signal queue alone, and returns the reading
\* thread to the point where it takes the next payload.
C5_DecodeErrorDropsCommand ==
  /\ [](pc_d = "ag_except" => (gcb = entry_gcb /\ gcbcmds = entry_cmds /\ gcblock))
  /\ [][(pc_d = "ag_except" /\ pc_d' # "ag_except")
         => /\ pc_d' = "idle" /\ ~gcblock'
            /\ gcb' = entry_gcb /\ gcbcmds' = entry_cmds
            /\ sigq' = sigq /\ gchanged' = gchanged]_vars

\* A payload failed to decode and the payload after it was decoded and
\* appended.
C5_Witness ==
  /\ pc_d = "idle" /\ gcb # <<>>
  /\ \E i \in 1..(Len(log) - 1) : log[i] = "err" /\ log[i + 1] = "ok"

\* The characters of the numeric fields a fixed-width payload consumes:
\* commandlist[3:12] (colour), [3:11] (move, draw), [3:6] (width).
ConsumedFields(cl) ==
  CASE cl[3] = 49 -> Slice(cl, 3, 12)
    [] cl[3] \in {51, 52} -> Slice(cl, 3, 11)
    [] cl[3] = 54 -> Slice(cl, 3, 6)
    [] OTHER -> <<>>

\* C6: a fixed-width SetColour, Move, Draw or SetWidth payload is decoded
\* without error only if every character of its numeric fields is a digit.
C6_NonDigitFieldFails ==
  (pc_d = "ag_bump" /\ commandlist[1] = 27)
  => \A i \in 1..Len(ConsumedFields(commandlist)) :
        IsDigit(ConsumedFields(commandlist)[i])

\* |v - ref| <= 1/ColourScale for a decoded number v = m/d and a reference
\* value ref = n/d.
WithinColourStep(v, ref) ==
  LET diff == v.m * ref.d - ref.n * v.d
  IN  v.e = 0 /\ Abs(diff) <= (v.d * ref.d) \div ColourScale

\* C7: a 3-digit colour field n decodes to n/999, and what the driver's
\* fixed-mode encoder makes of that value decodes to within 1/999 of n/999;
\* the value decoded from the driver's encoding of r in [0,1] is within
\* 1/999 of r.
C7_ColourRoundTrip ==
  /\ cphase = "field_decoded"
       => /\ cdec.ok /\ Len(cdec.cmds) = 1
          /\ \A i \in 1..3 :
               cdec.cmds[1][i + 1] = [m |-> cr[i].n, e |-> 0, d |-> ColourScale]
  /\ cphase \in {"redecoded", "value_decoded"}
       => /\ cdec.ok /\ Len(cdec.cmds) = 1
          /\ \A i \in 1..3 : WithinColourStep(cdec.cmds[1][i + 1], cr[i])

\* The field 999 has been decoded, encoded again by the driver and decoded.
C7_Witness ==
  cphase = "redecoded" /\ cr[1].n = ColourScale /\ cdec.ok

\* C8: after a successful decode a redraw is signalled exactly when the
\* command is Flush or Clear or the command count is one short of a
\* multiple of 1000; the signal block stores 2 in gchanged and queues one
\* signal; every successful command but Clear adds exactly one to the
\* count (so 1000 consecutive ones pass a count of 999 modulo 1000).
C8_RedrawSignalled ==
  [][/\ (pc_d = "ag_check" /\ pc_d' # pc_d)
        => ((pc_d' = "ag_setchanged")
              <=> (commandlist[3] \in {48, 53}
                     \/ gcbcmds % RedrawPeriod = RedrawPeriod - 1))
     /\ (pc_d = "ag_setchanged" /\ pc_d' # pc_d)
        => (pc_d' = "ag_emit" /\ gchanged' = 2)
     /\ (pc_d = "ag_emit" /\ pc_d' # pc_d) => sigq' = sigq + 1
     /\ sigq' > sigq => pc_d = "ag_emit"
     /\ (pc_d = "ag_bump" /\ pc_d' # pc_d)
        => gcbcmds' = IF commandlist[3] = 48 THEN 0 ELSE gcbcmds + 1]_vars

\* A redraw is being signalled for a command that is not a Flush, at a
\* count of 999.
C8_Witness ==
  pc_d = "ag_emit" /\ ~isaflush /\ gcbcmds = RedrawPeriod - 1

\* C8 as first stated: the signal is raised exactly at Flush, Clear, or a
\* count that has reached a multiple of 1000.
C8_SignalAtMultiple ==
  [][(pc_d = "ag_check" /\ pc_d' # pc_d)
        => ((pc_d' = "ag_setchanged")
              <=> (commandlist[3] \in {48, 53}
                     \/ (gcbcmds > 0 /\ gcbcmds % RedrawPeriod = 0)))]_vars

\* C9: when N > 1 signals have been raised while doGrUpdate ran no step,
\* and doGrUpdate has then handled all of them, it has called update()
\* exactly twice.
C9_TwoRepaintRequests ==
  (bphase = "handling" /\ burst >= 2 /\ sigq = 0 /\ pc_m \notin InDoGrUpdate)
  => nupd = 2

\* Three signals were raised before any was handled, and all are handled.
C9_Witness ==
  bphase = "handling" /\ burst = 3 /\ sigq = 0 /\ pc_m = "idle" /\ nupd = 2

\* C9 as first stated: handling the N signals calls update() exactly once.
C9_OneRepaintRequest ==
  (bphase = "handling" /\ burst >= 2 /\ sigq = 0 /\ pc_m \notin InDoGrUpdate)
  => nupd = 1

\* C10: with the graphics view showing, every decoded Flush is eventually
\* followed by a complete replay of the buffer (or by a Clear).
C10_FlushIsReplayed == (owed /\ drawgraf) ~> ~owed

\* The handlers registered for the character c.
HandlersFor(c) ==
  {escapeProcessFuncList[k][2] :
     k \in {j \in 1..Len(escapeProcessFuncList) : escapeProcessFuncList[j][1] = c}}

\* A step that takes the next character of the string.
TakesChar == nread' = nread + 1

\* C11: when the matcher is idle and escape processing is on, taking a
\* character that is a registered introducer makes its handler the active
\* one with an empty accumulated sequence and step count 0; taking any other
\* character leaves the matcher idle, calls no handler and no addGraphics,
\* and the character is handled by the text screen: a control character at
\* once, any other by the screenAddCharSimple call that follows.
C11_IntroducerStartsHandler ==
  [][ /\ (TakesChar /\ ~inescape /\ ~do_not_process_escapes) =>
          IF HandlersFor(char') # {}
          THEN /\ inescape' /\ escapeProcessFunc' \in HandlersFor(char')
               /\ escapeseq' = <<>> /\ numescape' = 0
               /\ screen' = screen
          ELSE /\ ~inescape' /\ pc_d' = "idle" /\ ncalls' = ncalls
               /\ IF char' \in ControlChars
                  THEN /\ Len(screen') = Len(screen) + 1
                       /\ screen'[Len(screen')][2] = char'
                       /\ pc_s' = "next"
                  ELSE pc_s' = "dispatch" /\ screen' = screen
      /\ (pc_s = "dispatch" /\ ~inescape /\ ~do_not_process_escapes) =>
          /\ screen' = Append(screen, <<IF printableChar(char) THEN "add" ELSE "drop",
                                        char>>)
          /\ ~inescape' /\ pc_s' = "next" /\ ncalls' = ncalls
          /\ escapeseq' = escapeseq
    ]_vars

\* An introducer has just made its handler active, after a character that
\* went to the screen and a sequence that has ended.
C11_Witness ==
  /\ pc_s = "dispatch" /\ inescape /\ char = 27
  /\ escapeProcessFunc = "ansi_escape" /\ escapeseq = <<>> /\ numescape = 0
  /\ \E k \in 1..Len(screen) : screen[k] = <<"add", 109>>
  /\ \E k \in 1..Len(screen) : screen[k] = <<"add", 27>>

\* C12: while a sequence is being accumulated, every character taken is
\* appended to the accumulated sequence and given to the active handler, and
\* taking it does nothing to the text screen.
C12_AccumulatingBytesGoToHandler ==
  [][ /\ (TakesChar /\ inescape /\ ~do_not_process_escapes) =>
          (screen' = screen /\ pc_s' = "dispatch")
      /\ (pc_s = "dispatch" /\ inescape) =>
          (escapeseq' = Append(escapeseq, char) /\ inescape' = CallHandler(
             escapeProcessFunc, char, escapeseq, numescape).stayEscape)
    ]_vars

\* C13: one escape sequence at a time.  While a sequence is accumulated with
\* escape processing on, taking a character replaces neither the active
\* handler nor its accumulated sequence; a registered introducer met inside a
\* sequence is appended to it by the current handler; and a handler becomes
\* the active one only when no sequence is in progress.
C13_OneSequenceAtATime ==
  [][ /\ (TakesChar /\ inescape /\ ~do_not_process_escapes) =>
          /\ inescape' /\ escapeProcessFunc' = escapeProcessFunc
          /\ escapeseq' = escapeseq /\ numescape' = numescape
      /\ (pc_s = "dispatch" /\ inescape /\ numescape > 0 /\ HandlersFor(char) # {}) =>
          /\ escapeseq' = Append(escapeseq, char)
          /\ escapeProcessFunc' \in {escapeProcessFunc, "None"}
      /\ (escapeProcessFunc' # escapeProcessFunc /\ escapeProcessFunc' # "None") =>
          (~inescape /\ TakesChar /\ escapeProcessFunc' \in HandlersFor(char'))
    ]_vars

\* A '$' has been appended to a graphics sequence begun by '@' while '$'
\* has a handler of its own.
C13_Witness ==
  /\ pc_s = "next" /\ inescape /\ escapeProcessFunc = "cyber_apl_graphics_escape"
  /\ HandlersFor(36) = {"cyber_apl_escape"}
  /\ Len(escapeseq) = 3 /\ escapeseq[1] = 64 /\ escapeseq[3] = 36

\* The ANSI and the '@' graphics handler, which want '[' after the introducer.
BracketHandlers == {"ansi_escape", "cyber_apl_graphics_escape"}

\* C14: for the ANSI and the '@' graphics dialect, a character other than
\* '[' that follows the introducer is given to the handler, which ends the
\* sequence; the matcher is idle again and the introducer and that
\* character are added to the text screen in this order.
C14_UnexpectedSecondByteReemitted ==
  [][ /\ (/\ TakesChar /\ inescape /\ ~do_not_process_escapes
          /\ escapeProcessFunc \in BracketHandlers /\ numescape = 1 /\ char' # 91) =>
          (pc_s' = "dispatch" /\ screen' = screen)
      /\ (/\ pc_s = "dispatch" /\ inescape
          /\ escapeProcessFunc \in BracketHandlers /\ numescape = 1 /\ char # 91) =>
          /\ ~inescape' /\ escapeProcessFunc' = "None" /\ numescape' = 0
          /\ screen' = screen \o <<<<"add", escapeseq[1]>>, <<"add", char>>>>
          /\ ncalls' = ncalls
    ]_vars

\* The second half of C14 alone: what the handler does with the character
\* once it is called.
C14_HandlerReemits ==
  [][ (/\ pc_s = "dispatch" /\ inescape
       /\ escapeProcessFunc \in BracketHandlers /\ numescape = 1 /\ char # 91) =>
          /\ ~inescape' /\ escapeProcessFunc' = "None" /\ numescape' = 0
          /\ screen' = screen \o <<<<"add", escapeseq[1]>>, <<"add", char>>>>
          /\ ncalls' = ncalls
    ]_vars

\* The result of the handler call that a dispatch step makes.
Returned == CallHandler(escapeProcessFunc, char, escapeseq, numescape)

\* A dispatch step in which the handler ends the sequence.
HandlerEnds == pc_s = "dispatch" /\ inescape /\ escapeProcessFunc # "None"
               /\ ~Returned.stayEscape

\* C15: when a handler ends a sequence the matcher is idle; once the next
\* character can be taken it has no active handler and step count 0.  A
\* graphics result list enters addGraphics as its commandlist and adds
\* nothing to the text screen, up to the return of addGraphics; any other
\* result list is added to the screen character by character with no call
\* of addGraphics; with no result list neither happens.
C15_ResultRoutedByFlag ==
  [][ /\ HandlerEnds =>
          /\ ~inescape'
          /\ IF Returned.some /\ Returned.grafescape
             THEN /\ ncalls' = ncalls + 1 /\ commandlist' = Returned.resultList
                  /\ pc_d' = "ag_decode" /\ screen' = screen
             ELSE /\ ncalls' = ncalls /\ pc_d' = "idle" /\ pc_s' = "next"
                  /\ Len(screen') = Len(screen)
                        + (IF Returned.some THEN Len(Returned.resultList) ELSE 0)
                  /\ \A k \in 1..Len(screen) : screen'[k] = screen[k]
                  /\ Returned.some =>
                       \A k \in 1..Len(Returned.resultList) :
                          screen'[Len(screen) + k] = <<"add", Returned.resultList[k]>>
      /\ (pc_s = "graphics") => (screen' = screen /\ ncalls' = ncalls /\ ~inescape')
      /\ (pc_s' = "next" /\ ~inescape') =>
          (escapeProcessFunc' = "None" /\ numescape' = 0)
    ]_vars

\* ESC 'm' has ended with a result list for the screen and then ESC '[' 'z'
\* with one for addGraphics, which has returned.
C15_Witness ==
  /\ pc_s = "next" /\ ~inescape /\ escapeProcessFunc = "None" /\ numescape = 0
  /\ ncalls = 1 /\ pc_d = "idle" /\ grafescape /\ escapeseq = <<27, 91, 122>>
  /\ screen = <<<<"add", 27>>, <<"add", 109>>>>
  /\ nread = 5

\* The replay loop is about to run the command at rpos, or to end.
InLoop == pc_m = "rn_loop"
AtCommand == InLoop /\ rpos <= Len(gcb)
AtEnd == InLoop /\ rpos > Len(gcb)

\* The points (0.1, 0.1), (0.9, 0.7) and (0.5, 0.5).
P11 == <<[m |-> 1, e |-> -1, d |-> 1], [m |-> 1, e |-> -1, d |-> 1]>>
P97 == <<[m |-> 9, e |-> -1, d |-> 1], [m |-> 7, e |-> -1, d |-> 1]>>
P55 == <<[m |-> 5, e |-> -1, d |-> 1], [m |-> 5, e |-> -1, d |-> 1]>>

\* The buffer begins with Move(0.1, 0.1), Draw(0.9, 0.7) and a command that
\* is neither draw nor relative draw.
MoveDrawOther ==
  /\ Len(gcb) >= 3
  /\ gcb[1][1] = 3 /\ PosEq(<<gcb[1][2], gcb[1][3]>>, P11)
  /\ gcb[2][1] = 4 /\ PosEq(<<gcb[2][2], gcb[2][3]>>, P97)
  /\ gcb[3][1] \notin {4, 18}

\* C16: in a replay the commands are run in buffer order; an open polyline
\* is stroked, once, by the first command that is neither draw nor relative
\* draw, or at the end of the buffer, and nothing is stroked when no
\* polyline is open; a stroked polyline is not open any more.  After
\* Move(0.1, 0.1), Draw(0.9, 0.7) and one more command that is not a draw,
\* exactly one polyline has been stroked and it has exactly two points.
C16_PolylineStrokedOnce ==
  /\ [][ /\ AtCommand => (rpos' = rpos + 1 \/ pc_m' = "idle")
         /\ (AtCommand /\ inaline /\ gcb[rpos][1] \notin {4, 18}) =>
              (strokes' = Append(strokes, path) /\ ~inaline' /\ path' = <<>>)
         /\ (AtCommand /\ inaline /\ gcb[rpos][1] \in {4, 18}) =>
              (strokes' = strokes /\ inaline' /\ Len(path') = Len(path) + 1
               /\ \A k \in 1..Len(path) : path'[k] = path[k])
         /\ (AtEnd /\ inaline) =>
              (strokes' = Append(strokes, path) /\ ~inaline' /\ path' = <<>>)
         /\ (InLoop /\ ~inaline) => strokes' = strokes
       ]_vars
  /\ [](MoveDrawOther /\ InLoop /\ rpos = 4 =>
          /\ Len(strokes) = 1 /\ Len(strokes[1]) = 2
          /\ PosEq(strokes[1][1], P11) /\ PosEq(strokes[1][2], P97))

\* Move, Draw and SetColour have been replayed and the one polyline is
\* stroked.
C16_Witness ==
  /\ MoveDrawOther /\ gcb[3][1] = 1 /\ InLoop /\ rpos = 4
  /\ strokes = <<<<P11, P97>>>> /\ ~inaline

\* The buffer is Move(0.1, 0.1), Draw(0.9, 0.7), SetColour and a draw.
MoveDrawColourDraw ==
  Len(gcb) = 4 /\ MoveDrawOther /\ gcb[3][1] = 1 /\ gcb[4][1] = 4

\* C17: after Move, Draw and SetColour a further Draw(x, y) starts a second
\* polyline, which is stroked at the end of the replay, ends at (x, y) and
\* shares no segment with the first.
C17_DrawAfterCloseStartsPolyline ==
  [][ (AtEnd /\ MoveDrawColourDraw) =>
        /\ Len(strokes') = 2
        /\ strokes'[1] = <<P11, P97>>
        /\ PosEq(strokes'[2][Len(strokes'[2])], <<gcb[4][2], gcb[4][3]>>)
    ]_vars

\* The position given by the command at rpos, and the current position
\* moved by it.
Given == <<gcb[rpos][2], gcb[rpos][3]>>
Moved == PosAdd(gcp, Given)

\* The buffer is Move(0.1, 0.1), RelativeMove(0.1, 0.1) twice and
\* RelativeDraw(0, 0).
MoveRelRelDraw ==
  /\ Len(gcb) = 4
  /\ gcb[1][1] = 3 /\ PosEq(<<gcb[1][2], gcb[1][3]>>, P11)
  /\ gcb[2][1] = 17 /\ PosEq(<<gcb[2][2], gcb[2][3]>>, P11)
  /\ gcb[3][1] = 17 /\ PosEq(<<gcb[3][2], gcb[3][3]>>, P11)
  /\ gcb[4][1] = 18 /\ PosEq(<<gcb[4][2], gcb[4][3]>>, <<Zero, Zero>>)

\* The point (0.3, 0.3).
P33 == <<[m |-> 3, e |-> -1, d |-> 1], [m |-> 3, e |-> -1, d |-> 1]>>

\* The relative commands: a relative move adds its argument to the current
\* position; a relative draw after a move draws one segment from the
\* position moved to, to that position plus its argument.
RelativeAccumulates ==
  /\ (AtCommand /\ gcb[rpos][1] = 17) =>
        (PosEq(gcp', Moved) /\ PosEq(pm', Moved) /\ pending_move')
  /\ (AtCommand /\ gcb[rpos][1] = 18 /\ pending_move) =>
        /\ PosEq(gcp', Moved) /\ Len(path') = 2
        /\ PosEq(path'[1], pm) /\ PosEq(path'[2], Moved)
  /\ (AtEnd /\ MoveRelRelDraw) =>
        /\ Len(strokes') = 1 /\ Len(strokes'[1]) = 2
        /\ PosEq(strokes'[1][1], P33) /\ PosEq(strokes'[1][2], P33)

\* C18: relative commands accumulate by addition onto the position set by
\* the last absolute move, Move(P), RelativeMove(0.1, 0.1) twice and
\* RelativeDraw(0, 0) drawing a segment that ends at P + (0.2, 0.2); and an
\* absolute move or draw makes its own coordinates the current position.
C18_RelativeFromLastAbsolute ==
  [][ /\ RelativeAccumulates
      /\ (AtCommand /\ gcb[rpos][1] \in {3, 4}) => PosEq(gcp', Given)
    ]_vars

\* The part of C18 about relative commands and the absolute move.
C18_RelativeAndMove ==
  [][ /\ RelativeAccumulates
      /\ (AtCommand /\ gcb[rpos][1] = 3) => PosEq(gcp', Given)
    ]_vars

\* The fraction s is pixels / max(1e-6, hi - lo).
IsScale(s, pixels, lo, hi) ==
  LET span == NumSub(hi, lo)
      up   == IF span.e > 0 THEN Pow10(span.e) ELSE 1
      down == IF span.e < 0 THEN Pow10(0 - span.e) ELSE 1
  IN  /\ s.d > 0
      /\ IF span.m * up * 1000000 < span.d * down
         THEN s.n = pixels * 1000000 * s.d
         ELSE s.n * span.m * up = pixels * span.d * down * s.d

\* The fraction s is the whole number k.
IsWhole(s, k) == s.d > 0 /\ s.n = k * s.d

\* The command at rpos is SetBounds(0, 0, 10, 20) and the device is 200 x 100.
Bounds1020OnSmall ==
  /\ AtCommand /\ gcb[rpos][1] = 7
  /\ PosEq(<<gcb[rpos][2], gcb[rpos][3]>>, <<Zero, Zero>>)
  /\ PosEq(<<gcb[rpos][4], gcb[rpos][5]>>,
           <<[m |-> 10, e |-> 0, d |-> 1], [m |-> 20, e |-> 0, d |-> 1]>>)
  /\ to_x_pixels = 200 /\ to_y_pixels = 100

\* C19: with no zoom, the replay of SetBounds(xlo, ylo, xhi, yhi) on a W x H
\* device sets, in square mode, x_scale and y_scale to H / max(1e-6, yhi -
\* ylo), and otherwise x_scale to W / max(1e-6, xhi - xlo) and y_scale to
\* H / max(1e-6, yhi - ylo); SetBounds(0, 0, 10, 20) on 200 x 100 gives 5
\* and 5 in square mode and 20 and 5 otherwise.
C19_BoundsScale ==
  [][ /\ (AtCommand /\ gcb[rpos][1] = 7) =>
          IF make_square
          THEN /\ IsScale(y_scale', to_y_pixels, gcb[rpos][3], gcb[rpos][5])
               /\ x_scale' = y_scale'
          ELSE /\ IsScale(x_scale', to_x_pixels, gcb[rpos][2], gcb[rpos][4])
               /\ IsScale(y_scale', to_y_pixels, gcb[rpos][3], gcb[rpos][5])
      /\ Bounds1020OnSmall =>
          IF make_square
          THEN IsWhole(x_scale', 5) /\ IsWhole(y_scale', 5)
          ELSE IsWhole(x_scale', 20) /\ IsWhole(y_scale', 5)
    ]_vars

\* SetSquare(1) and SetBounds(0, 0, 10, 20) have been replayed on the
\* 200 x 100 device.
C19_Witness ==
  /\ InLoop /\ rpos = 3 /\ gcb[1][1] = 16 /\ make_square
  /\ gcb[2][1] = 7 /\ gcb[2][4].m = 10
  /\ to_x_pixels = 200 /\ to_y_pixels = 100
  /\ IsWhole(x_scale, 5) /\ IsWhole(y_scale, 5)

\* The value m * 10^e of v is the whole number n.
IsValue(v, n) ==
  IF v.e >= 0 THEN v.m * Pow10(v.e) = n ELSE v.m = n * Pow10(0 - v.e)

\* step * ticks >= data_range
StepCovers(step, ticks, data_range) ==
  IF step.e >= 0 THEN step.m * Pow10(step.e) * ticks >= data_range
  ELSE step.m * ticks >= data_range * Pow10(0 - step.e)

\* C20: the step tick_step returns is m * 10^k with m in {1, 2, 5, 10} and
\* is at least data_range / max_ticks, so that max_ticks steps cover the
\* range; tick_step(95, 10) is 10, and tick_values(0, 95, 10) is the list
\* 0, 10, ..., 100.
C20_TickStep ==
  /\ tphase \in {"values", "done"} /\ data_min # data_max =>
       /\ tstep.m \in {1, 2, 5, 10}
       /\ StepCovers(tstep, max_ticks, data_max - data_min)
       /\ (data_max - data_min = 95 /\ max_ticks = 10) => IsValue(tstep, 10)
  /\ (tphase = "done" /\ data_min = 0 /\ data_max = 95 /\ max_ticks = 10) =>
       /\ Len(tvalues) = 11
       /\ \A j \in 1..11 : IsValue(tvalues[j], 10 * (j - 1))

\* tick_values(0, 95, 10) has returned.
C20_Witness ==
  /\ tphase = "done" /\ data_min = 0 /\ data_max = 95 /\ max_ticks = 10
  /\ IsValue(tstep, 10) /\ Len(tvalues) = 11 /\ IsValue(tvalues[11], 100)

\* C21: every label tick_labels returns is the two-decimal form of its
\* tick with all trailing zeros removed, and the decimal point too when
\* nothing follows it; tick_labels([5.0, 5.25, 5.2]) returns
\* (["5", "5.25", "5.2"], "").
C21_TrailingZerosRemoved ==
  lphase = "done" =>
    /\ \A j \in 1..Len(labels) :
         (\E i \in 1..Len(labels[j]) : labels[j][i] = 46) =>
           labels[j][Len(labels[j])] \notin {48, 46}
    /\ tick_vals = <<500, 525, 520>> =>
         labels = << <<53>>, <<53, 46, 50, 53>>, <<53, 46, 50>> >> /\ scale_label = <<>>

\* What tick_labels returns for [5.0, 5.25, 5.2]: "5.0", "5.25", "5.2".
C21_OneZeroRemoved ==
  (lphase = "done" /\ tick_vals = <<500, 525, 520>>) =>
    labels = << <<53, 46, 48>>, <<53, 46, 50, 53>>, <<53, 46, 50>> >> /\ scale_label = <<>>

\* C22: a command whose replay fails is skipped and the commands after it
\* are still replayed: a replay leaves its loop only when it has gone past
\* the last command of the buffer.
C22_ReplayReachesEnd ==
  [][(pc_m = "rn_loop" /\ pc_m' # "rn_loop") => rpos > Len(gcb)]_vars

\* The command at rpos is SetBounds (7) or SetGraphBounds (8) with equal
\* ends on the x axis, or on the y axis.
ZeroSpanX == AtCommand /\ gcb[rpos][1] \in {7, 8} /\ NumEq(gcb[rpos][2], gcb[rpos][4])
ZeroSpanY == AtCommand /\ gcb[rpos][1] \in {7, 8} /\ NumEq(gcb[rpos][3], gcb[rpos][5])

\* C23: the replay of a bounds command with zero span on an axis, SetBounds
\* or SetGraphBounds, does not fail: it goes on to the next command, and
\* the scale of the affected axis is the device size divided by 1e-6.
C23_ZeroSpanBoundsReplayed ==
  [][ /\ ((ZeroSpanX \/ ZeroSpanY) /\ rpos' # rpos) =>
           (pc_m' = "rn_loop" /\ rpos' = rpos + 1)
      /\ (ZeroSpanX /\ ~make_square /\ rpos' = rpos + 1) =>
           IsWhole(x_scale', to_x_pixels * 1000000)
      /\ (ZeroSpanY /\ rpos' = rpos + 1) =>
           IsWhole(y_scale', to_y_pixels * 1000000) ]_vars

\* C24: the buffer lock is never held while the replay issues drawing
\* primitives: the decoder never waits for a replay to end.
C24_LockFreeWhileDrawing == ~(AtCommand /\ gcblock)

\* The decode step of a call whose payload starts with ESC.
EscModeDecode == pc_d = "ag_decode" /\ pc_d' # "ag_decode" /\ commandlist[1] = 27

\* C25: a payload in the ESC-introduced fixed-width encoding adds at most
\* one entry, and only a SetColour (1), Fill (2), Move (3), Draw (4) or
\* SetWidth (6) entry, for the opcode bytes 1, 2, 3, 4 and 6; Clear and Flush
\* add none; the opcode bytes 7, 8, 9 and A to I add none.
C25_EscModeAddsBasicEntries ==
  [][EscModeDecode =>
       /\ \/ gcb' = gcb
          \/ gcb' = <<>> /\ commandlist[3] = 48
          \/ /\ Len(gcb') = Len(gcb) + 1 /\ SubSeq(gcb', 1, Len(gcb)) = gcb
             /\ gcb'[Len(gcb')][1] \in {1, 2, 3, 4, 6}
             /\ commandlist[3] = 48 + gcb'[Len(gcb')][1]
       /\ commandlist[3] \in {48, 53} => Len(gcb') <= Len(gcb)
       /\ commandlist[3] \in {55, 56, 57} \cup (65..73) => gcb' = gcb]_vars

\* After a Move was appended, ESC[7 1 2 3 4 z has been decoded and the
\* buffer is as it was.
C25_Witness ==
  /\ pc_d = "ag_bump" /\ commandlist = EscPayload(55, FourTokens)
  /\ gcb = entry_gcb /\ Len(gcb) = 1 /\ gcb[1][1] = 3

\* The payload of the call in progress has an opcode byte outside the table.
UnknownOpcode == Len(commandlist) >= 3 /\ commandlist[3] \notin OpcodeBytes

\* C26: a payload whose opcode byte is not in the table appends nothing and
\* leaves the entries as they were, raises no error (the try block runs to
\* its end), and returns with the lock released, so that the next payload
\* can be taken.
C26_UnknownOpcodeDropped ==
  /\ [][(UnknownOpcode /\ pc_d = "ag_decode" /\ pc_d' # pc_d) =>
          (gcb' = gcb /\ pc_d' = "ag_bump")]_vars
  /\ [](UnknownOpcode => (pc_d # "ag_except" /\ gcb = entry_gcb))
  /\ [][(UnknownOpcode /\ pc_d' = "idle") => ~gcblock']_vars

\* '@[$ 1 2 3 4 @' or '@[J 1 2 3 4 @' came first: it was counted, appended
\* nothing and raised nothing.  The Move after it has been appended.
C26_Witness ==
  /\ pc_d = "ag_bump" /\ ncalls = 2 /\ log = <<"ok", "ok">>
  /\ entry_gcb = <<>> /\ entry_cmds = 1 /\ suppress_next_newline_display
  /\ commandlist = EscPayload(51, NineDigits) /\ Len(gcb) = 1 /\ gcb[1][1] = 3

\* b is a with one entry added at the tail.
OneAppended(a, b) == Len(b) = Len(a) + 1 /\ SubSeq(b, 1, Len(a)) = a

\* C27: the buffer is append-only between clears.  A step changes gcb only
\* by adding one entry at the tail (the decode step of addGraphics) or by
\* removing every entry (a decoded Clear, or clearScreen); within one
\* addGraphics call at most one entry is added to what the call found; and
\* while a replay is in its loop the buffer and the count stay as they are.
C27_AppendOnlyBetweenClears ==
  /\ [][ \/ gcb' = gcb
         \/ OneAppended(gcb, gcb') /\ pc_d = "ag_decode"
         \/ gcb' = <<>> /\ \/ pc_d = "ag_decode" /\ commandlist[3] = 48
                           \/ pc_m = "cs_clear" ]_vars
  /\ [](DecoderHolds =>
          (gcb = entry_gcb \/ OneAppended(entry_gcb, gcb) \/ gcb = <<>>))
  /\ [][InLoop => (gcb' = gcb /\ gcbcmds' = gcbcmds)]_vars

\* A replay has gone through a buffer of two entries, added by two calls.
C27_Witness ==
  AtEnd /\ Len(gcb) = 2 /\ gcbcmds = 2 /\ ncalls = 2 /\ pc_d = "idle"

\* clearScreen has done its clearing, in the graphics view or in the text
\* view, and goes on to ask for the repaint.
ClearScreenCleared == pc_m \in {"cs_release", "cs_text"} /\ pc_m' # pc_m

\* C28: after clearScreen the graphics command buffer is empty and the
\* command count is 0, in the text view as in the graphics view.
C28_ClearScreenEmptiesBuffer ==
  [][ClearScreenCleared => (gcb' = <<>> /\ gcbcmds' = 0)]_vars

\* clearScreen in the graphics view empties the buffer and the count.
C28_GraphicsViewCleared ==
  [][(ClearScreenCleared /\ drawgraf) => (gcb' = <<>> /\ gcbcmds' = 0)]_vars

\* C29: the changed counter gchanged is monotonic: no step of a decode, a
\* clear or the handling of a redraw signal makes its value smaller.
C29_ChangedNeverDecreases == [][gchanged' >= gchanged]_vars

\* C30: at every point of every replay on a device of positive width and
\* height, x_scale and y_scale are strictly positive and finite, whatever
\* SetBounds and SetSquareMode commands the buffer holds.
C30_ScalesPositive ==
  (InLoop /\ to_x_pixels > 0 /\ to_y_pixels > 0) =>
    /\ x_scale.n > 0 /\ x_scale.d > 0
    /\ y_scale.n > 0 /\ y_scale.d > 0

\* The scales are positive at every point of a replay whose buffer holds
\* no bounds command with a span beyond the largest double.
C30_FiniteSpansPositive ==
  (InLoop /\ \A i \in 1..Len(gcb) :
               gcb[i][1] = 7 => ~SpanOverflows(NumSub(gcb[i][4], gcb[i][2]))) =>
    /\ x_scale.n > 0 /\ x_scale.d > 0
    /\ y_scale.n > 0 /\ y_scale.d > 0

\* C31: the replay of SetSquareMode recomputes the transform: at every
\* command a replay comes to with square mode on, x_scale equals y_scale,
\* also when no bounds command has followed the SetSquareMode command.
C31_SquareModeRecomputes ==
  (AtCommand /\ make_square) => x_scale.n * y_scale.d = y_scale.n * x_scale.d

\* The scales change in a replay only at a bounds command: they persist
\* across every other command, SetSquareMode included.
C31_ScalesChangeAtBounds ==
  [][(AtCommand /\ gcb[rpos][1] \notin {7, 8}) =>
       (x_scale' = x_scale /\ y_scale' = y_scale)]_vars

\* v <= n and v >= n for a tick value v = m * 10^e and a whole number n.
AtMost(v, n) == IF v.e >= 0 THEN v.m * Pow10(v.e) <= n ELSE v.m <= n * Pow10(0 - v.e)
AtLeast(v, n) == IF v.e >= 0 THEN v.m * Pow10(v.e) >= n ELSE v.m >= n * Pow10(0 - v.e)

\* The list is made of consecutive multiples of the step, in ascending
\* order, from at or below the lower end to at or above the upper end.
TicksBracket ==
  /\ Len(tvalues) >= 2
  /\ \A j \in 1..Len(tvalues) :
       tvalues[j].e = tstep.e /\ tvalues[j].m % tstep.m = 0
  /\ \A j \in 1..(Len(tvalues) - 1) : tvalues[j + 1].m = tvalues[j].m + tstep.m
  /\ AtMost(tvalues[1], data_min) /\ AtLeast(tvalues[Len(tvalues)], data_max)

\* C34: tick_values returns ascending consecutive multiples of the step that
\* bracket [min, max] and go one tick beyond the first multiple that is at
\* or above max (the tick before the last is itself at or above max); for
\* equal ends it returns the empty list.
C34_TicksBracketWithPadding ==
  tphase = "done" =>
    IF data_min = data_max THEN tvalues = <<>>
    ELSE TicksBracket /\ AtLeast(tvalues[Len(tvalues) - 1], data_max)

\* tick_values returns the multiples from the last one at or below min to
\* the first one at or above max, and no tick beyond it.
C34_TicksBracketExactly ==
  tphase = "done" =>
    IF data_min = data_max THEN tvalues = <<>>
    ELSE /\ TicksBracket
         /\ ~AtMost(tvalues[2], data_min)
         /\ ~AtLeast(tvalues[Len(tvalues) - 1], data_max)

\* The number v = m * 10^e / d lies in [0, 1].
InUnit(v) ==
  /\ v.m >= 0 /\ v.d > 0
  /\ IF v.e >= 0 THEN v.m * Pow10(v.e) <= v.d ELSE v.m <= v.d * Pow10(0 - v.e)

\* C35: every value decoded from an all-digit fixed-width field lies in
\* [0, 1]: the operands of the SetColour, Move, Draw and SetWidth entries
\* that ESC-introduced payloads append are n/999, n/9999 and n/99 in [0, 1].
C35_FixedFieldsInUnit ==
  [][(EscModeDecode /\ OneAppended(gcb, gcb') /\ commandlist[3] # 50) =>
       \A k \in 2..Len(gcb'[Len(gcb')]) : InUnit(gcb'[Len(gcb')][k])]_vars

\* The operand decoded from the all-digit field commandlist[a:b], over scale.
FieldOver(a, b, scale) ==
  [m |-> DigitsVal(Slice(commandlist, a, b)), e |-> 0, d |-> scale]

\* A 3-digit colour field n gives n/999 and a 4-digit coordinate field n
\* gives n/9999, both in [0, 1]; a 3-digit width field n gives n/99, which
\* lies in [0, 999/99].
C35_FixedFieldsScaled ==
  [][(EscModeDecode /\ OneAppended(gcb, gcb')
        /\ \A i \in 1..Len(ConsumedFields(commandlist)) :
             IsDigit(ConsumedFields(commandlist)[i])) =>
       LET entry == gcb'[Len(gcb')]
       IN  /\ commandlist[3] = 49 =>
                \A k \in 1..3 : /\ entry[k + 1] = FieldOver(3 * k, 3 * k + 3, 999)
                                /\ InUnit(entry[k + 1])
           /\ commandlist[3] \in {51, 52} =>
                \A k \in 1..2 : /\ entry[k + 1] = FieldOver(4 * k - 1, 4 * k + 3, 9999)
                                /\ InUnit(entry[k + 1])
           /\ commandlist[3] = 54 =>
                /\ entry[2] = FieldOver(3, 6, 99)
                /\ entry[2].m >= 0 /\ entry[2].m <= 999]_vars

\* ESC[6999...z has been decoded: the width entry is 999/99.
C35_Witness ==
  /\ pc_d = "ag_bump" /\ commandlist = EscPayload(54, AllNines)
  /\ gcb = Append(entry_gcb, <<6, [m |-> 999, e |-> 0, d |-> 99]>>)

\* The decode step of a call whose payload starts with '@'.
AltModeDecode == pc_d = "ag_decode" /\ pc_d' # "ag_decode" /\ commandlist[1] = 64

\* The number of numeric operands of the command with opcode byte c.
NumOperands(c) ==
  CASE c = 49 -> 3
    [] c \in {51, 52, 68, 72, 73} -> 2
    [] c = 54 -> 1
    [] c \in {55, 56} -> 4
    [] c \in {65, 66, 67, 71} -> 1
    [] c = 70 -> 3
    [] OTHER -> 0

\* C36: in token mode every numeric operand of every command is decoded by
\* the negative-number escape convention: when the tokens of the operands
\* are numbers in that convention ('$NG' + number is its negation, 'E$NG' is
\* a negative exponent, anything else an ordinary decimal), the command is
\* appended with exactly those values.
C36_NegativeEscapeEveryOperand ==
  [][(AltModeDecode /\ NumOperands(commandlist[3]) > 0
        /\ \A k \in 1..NumOperands(commandlist[3]) :
             AltTok(Split(commandlist), k).ok) =>
       /\ OneAppended(gcb, gcb')
       /\ \A k \in 1..NumOperands(commandlist[3]) :
            gcb'[Len(gcb')][k + 1] = AltTok(Split(commandlist), k).val]_vars

\* The same for the commands other than SetColour and SetWidth, with the
\* value of '$NG1E$NG10' spelled out: -1 * 10^-10.
C36_NegativeEscapeOtherOperands ==
  [][(AltModeDecode /\ NumOperands(commandlist[3]) > 0
        /\ commandlist[3] \notin {49, 54}
        /\ \A k \in 1..NumOperands(commandlist[3]) :
             AltTok(Split(commandlist), k).ok) =>
       /\ OneAppended(gcb, gcb')
       /\ \A k \in 1..NumOperands(commandlist[3]) :
            gcb'[Len(gcb')][k + 1] = AltTok(Split(commandlist), k).val
       /\ commandlist = AltPayload(commandlist[3], NegTokens) =>
            gcb'[Len(gcb')][2] = [m |-> 0 - 1, e |-> 0 - 10, d |-> 1]]_vars

\* C38: whenever the buffer lock is not held, the command count is at least
\* the number of entries of the buffer.
C38_CountAtLeastLength == ~gcblock => gcbcmds >= Len(gcb)

\* The lock is free after a failed decode and successful ones, with more
\* commands counted than the buffer holds.
C38_Witness ==
  /\ ~gcblock /\ gcb # <<>> /\ gcbcmds > Len(gcb)
  /\ \E i \in 1..Len(log) : log[i] = "err"

\* C39: under every interleaving of the reading thread's unlocked store to
\* gchanged, clearScreen and the check, load and store of doGrUpdate, the
\* value of gchanged is 0, 1 or 2.
C39_ChangedInRange == gchanged \in {0, 1, 2}

\* doGrUpdate has loaded gchanged and the reading thread has stored to it
\* before doGrUpdate stores the decremented value.
C39_Witness == pc_m = "gr_write" /\ gr_tmp = 1 /\ gchanged = 2

\* The locals after the commands k.. of buffer have been replayed from the
\* locals st with self.make_square = square.
RECURSIVE ReplayRest(_, _, _, _, _, _)
ReplayRest(buffer, k, st, square, W, H) ==
  IF k > Len(buffer) THEN st
  ELSE ReplayRest(buffer, k + 1, ReplayCommand(buffer[k], st, square, W, H),
                  SquareAfter(buffer[k], square), W, H)

\* The positioned calls of a replay of the buffer that starts in the
\* current state of the widget.
NextReplayPrims ==
  ReplayRest(gcb, 1, ReplayStart(make_square, to_x_pixels, to_y_pixels),
             make_square, to_x_pixels, to_y_pixels).prims

\* C37: when a replay has run through the buffer, replaying the unchanged
\* buffer again with the same device size and zoom state makes the same
\* positioned calls, in the same order, as the replay that has just ended.
C37_ReplayRepeatable == AtEnd => NextReplayPrims = prims

\* The same for buffers without a SetSquareMode command.
C37_RepeatableWithoutSquareMode ==
  (AtEnd /\ \A k \in 1..Len(gcb) : gcb[k][1] # 16) => NextReplayPrims = prims

\* The sub-rectangle of the bounds of cmd that the zoom fractions select:
\* corners (xlo + fxlo*(xhi-xlo), ylo + fylo*(yhi-ylo)) and
\* (xlo + fxhi*(xhi-xlo), ylo + fyhi*(yhi-ylo)).
SubRectangle(cmd) ==
  [xlo |-> NumAdd(cmd[2], NumMul(raw_rect.xlo, NumSub(cmd[4], cmd[2]))),
   ylo |-> NumAdd(cmd[3], NumMul(raw_rect.ylo, NumSub(cmd[5], cmd[3]))),
   xhi |-> NumAdd(cmd[2], NumMul(raw_rect.xhi, NumSub(cmd[4], cmd[2]))),
   yhi |-> NumAdd(cmd[3], NumMul(raw_rect.yhi, NumSub(cmd[5], cmd[3])))]

\* The replay of a SetBounds command with a zoom active.
ZoomedBoundsStep ==
  AtCommand /\ rpos' = rpos + 1 /\ zoomed /\ gcb[rpos][1] = 7

\* C32: with a zoom active, the replay of SetBounds leaves the offsets and
\* scales that an un-zoomed SetBounds on the sub-rectangle leaves: the
\* offsets are its lower corner, and the scales are the device height over
\* its height for both in square mode, and the device width over its width
\* and the device height over its height otherwise.
C32_ZoomedBoundsAsSubRectangle ==
  [][ZoomedBoundsStep =>
       LET sub == SubRectangle(gcb[rpos])
       IN  /\ NumEq(x_offset', sub.xlo) /\ NumEq(y_offset', sub.ylo)
           /\ y_scale' = Scale(to_y_pixels, sub.ylo, sub.yhi)
           /\ x_scale' = IF make_square
                         THEN Scale(to_y_pixels, sub.ylo, sub.yhi)
                         ELSE Scale(to_x_pixels, sub.xlo, sub.xhi)]_vars

\* What the replay does: the same, but for y_offset outside square mode,
\* which is the lower y bound of the command itself.
C32_ZoomedBoundsButYOffset ==
  [][ZoomedBoundsStep =>
       LET sub == SubRectangle(gcb[rpos])
       IN  /\ NumEq(x_offset', sub.xlo)
           /\ NumEq(y_offset', IF make_square THEN sub.ylo ELSE gcb[rpos][3])
           /\ y_scale' = Scale(to_y_pixels, sub.ylo, sub.yhi)
           /\ x_scale' = IF make_square
                         THEN Scale(to_y_pixels, sub.ylo, sub.yhi)
                         ELSE Scale(to_x_pixels, sub.xlo, sub.xhi)]_vars

\* C33: while a zoom is active, every step of the decoder, of clearScreen,
\* of a replay and of the mouse handlers leaves it active with the same
\* rectangles, but for the one step that ends it: a handler of the main
\* thread at rest, with the graphics view showing, that touches neither
\* the buffer nor the replay and restores the bounds (0, 0, 1, 1), which is
\* what the double-click handler does.
C33_ZoomPersists ==
  [][zoomed =>
       \/ /\ zoomed'
          /\ raw_rect' = raw_rect /\ view_rect' = view_rect /\ zoom_rect' = zoom_rect
       \/ /\ pc_m = "idle" /\ drawgraf
          /\ ~zoomed' /\ ~zoom_box' /\ view_rect' = UnitRect
          /\ paintPending'
          /\ UNCHANGED <<widget, sigq, dthr, mthr, pen, raw_rect, zoom_rect>>]_vars

\* A replay has started with a zoom active: its first offsets are the lower
\* corner of the zoom rectangle.
C33_Witness ==
  /\ zoomed /\ AtCommand /\ rpos = 1 /\ view_rect # UnitRect
  /\ x_offset = view_rect.xlo /\ y_offset = view_rect.ylo

\* The user point a drawing command is about: the operands of Draw, point
\* and circle, the current position moved by the operands of a relative draw.
UserPoint(cmd) ==
  IF cmd[1] = 18 THEN PosAdd(gcp, <<cmd[2], cmd[3]>>) ELSE <<cmd[2], cmd[3]>>

\* The call p is at the device point (x, to_y_pixels - y).
PlacedAt(p, x, y) ==
  /\ NumEq(p.x, x)
  /\ IF p.flip THEN NumEq(p.y, y)
     ELSE NumEq(NumAdd(p.y, y), Frac(to_y_pixels, 1))

\* The replay of a command that makes a positioned call.
DrawingStep ==
  /\ AtCommand /\ rpos' = rpos + 1
  /\ gcb[rpos][1] \in {4, 13, 15, 18}
  /\ Len(prims') > Len(prims)

C40_CircleNotFlipped ==
  [][DrawingStep =>
       LET cmd == gcb[rpos]
           p   == prims'[Len(prims')]
           at  == DevPos(PenState, UserPoint(cmd))
       IN  IF cmd[1] = 15
           THEN /\ NumEq(p.x, at.x) /\ ~p.flip /\ NumEq(p.y, at.y)
                /\ NumEq(p.r, NumMul(cmd[4], ScaleNum(x_scale)))
           ELSE PlacedAt(p, at.x, at.y)]_vars

=========================================================================
